---- MODULE Spec2Model ----
(***************************************************************************)
(* UV unwrapping pipeline of part1_cpp: build_topology, validate_topology, *)
(* detect_seams, extract_islands, lscm_parameterize, pack_uv_islands and   *)
(* unwrap_mesh / unwrap_mesh_data.                                         *)
(*                                                                         *)
(* C arrays are functions over 0..n-1 so that every index is the index of  *)
(* the source.  A triangle or a point is a tuple <<a, b, c>>: corner j of   *)
(* the source (tris[3*f + j]) is component j + 1.  Vertex positions are    *)
(* integer lattice points.  malloc/calloc are taken to succeed; only       *)
(* allocate_mesh_copy, whose failure unwrap_mesh handles, may fail.        *)
(***************************************************************************)
EXTENDS Integers, Sequences, FiniteSets, TLC

VARIABLES mesh, params, call, pc, topo, seam, isl, result, result_out,
          island_id, attempts, uvs_out, ret, earlier, buffers

vars == <<mesh, params, call, pc, topo, seam, isl, result, result_out,
          island_id, attempts, uvs_out, ret, earlier, buffers>>

\* ------------------------------------------------------------------ bounds
\* Largest number of triangles of a mesh drawn from the planar pool.
MaxFaces == 3

\* Longest seam array handed to extract_islands directly.
MaxSeamInput == 2

\* Largest number of triangles of a mesh handed to pack_uv_islands directly.
MaxPackFaces == 2

\* --------------------------------------------------------------- utilities
Range(f) == {f[i] : i \in DOMAIN f}

\* A function and a sequence written out as explicit tables, every entry
\* evaluated once.
Table(f) == f @@ <<>>
Tuple(s) == SubSeq(s, 1, Len(s))

\* C array [0..n-1] holding the elements of the sequence s in order.
Arr(s) == Table([i \in 0..(Len(s) - 1) |-> s[i + 1]])

\* Smallest / largest element of a non-empty set of integers.
SetMin(S) == CHOOSE x \in S : \A y \in S : x <= y
SetMax(S) == CHOOSE x \in S : \A y \in S : x >= y

\* The elements of a finite set of integers, ascending (std::set / std::map
\* iteration order).
SortedSeq(S) ==
    Tuple([i \in 1..Cardinality(S) |->
              CHOOSE x \in S : Cardinality({y \in S : y < x}) = i - 1])

\* ------------------------------------------------------- vectors (integers)
Sub3(p, q) == <<p[1] - q[1], p[2] - q[2], p[3] - q[3]>>
Dot3(a, b) == a[1] * b[1] + a[2] * b[2] + a[3] * b[3]
Cross3(a, b) == <<a[2] * b[3] - a[3] * b[2],
                  a[3] * b[1] - a[1] * b[3],
                  a[1] * b[2] - a[2] * b[1]>>

\* ------------------------------------------------------------------ meshes
\* A Mesh value: vertex count, triangle count, positions and index triples.
MakeMesh(pos, tris) ==
    [num_vertices |-> Len(pos), num_triangles |-> Len(tris),
     vertices |-> Arr(pos), triangles |-> Arr(tris)]

\* Planar lattice vertices (z = 0) shared by the pool meshes.
PlanarPos == << <<0, 0, 0>>, <<1, 0, 0>>, <<0, 1, 0>>,
                <<1, 1, 0>>, <<2, 0, 0>>, <<2, 1, 0>> >>

\* Triangles over PlanarPos: a strip of four (0,1,2) (1,3,2) (1,4,3) (4,5,3),
\* two of them also with reversed winding, one with a repeated index and one
\* with three collinear vertices.
PlanarPool == { <<0, 1, 2>>, <<1, 0, 2>>, <<1, 3, 2>>, <<3, 1, 2>>,
                <<1, 4, 3>>, <<4, 5, 3>>, <<0, 0, 1>>, <<0, 1, 4>> }

PoolMeshes ==
    { MakeMesh(PlanarPos, tris) :
        tris \in UNION { [1..n -> PlanarPool] : n \in 0..MaxFaces } }

\* A flat square cut into four triangles around its centre vertex 4.
FanMesh ==
    MakeMesh(<< <<0, 0, 0>>, <<2, 0, 0>>, <<2, 2, 0>>, <<0, 2, 0>>, <<1, 1, 0>> >>,
             << <<0, 1, 4>>, <<1, 2, 4>>, <<2, 3, 4>>, <<3, 0, 4>> >>)

\* Two triangles that share an edge and a third that touches them in vertex
\* 3 only.
TailMesh == MakeMesh(PlanarPos, << <<0, 1, 2>>, <<1, 3, 2>>, <<4, 5, 3>> >>)

\* Six copies of one equilateral triangle: the angles at every vertex add up
\* to a full turn and the first two copies share all three edges.
StackMesh ==
    MakeMesh(<< <<1, 0, 0>>, <<0, 1, 0>>, <<0, 0, 1>> >>,
             << <<0, 1, 2>>, <<0, 1, 2>>, <<0, 1, 2>>,
                <<0, 1, 2>>, <<0, 1, 2>>, <<0, 1, 2>> >>)

\* The unit cube: vertex x + 2y + 4z sits at (x, y, z).
CubePos == << <<0, 0, 0>>, <<1, 0, 0>>, <<0, 1, 0>>, <<1, 1, 0>>,
              <<0, 0, 1>>, <<1, 0, 1>>, <<0, 1, 1>>, <<1, 1, 1>> >>

\* Its six quad faces, counter-clockwise seen from outside.
CubeQuads == << <<4, 6, 2, 0>>, <<1, 3, 7, 5>>, <<1, 5, 4, 0>>,
                <<2, 6, 7, 3>>, <<2, 3, 1, 0>>, <<4, 5, 7, 6>> >>

\* The two triangles of quad q split along diagonal q[1]-q[3] (d = 0) or
\* q[2]-q[4] (d = 1).
QuadTris(q, d) ==
    IF d = 0 THEN << <<q[1], q[2], q[3]>>, <<q[1], q[3], q[4]>> >>
    ELSE << <<q[1], q[2], q[4]>>, <<q[2], q[3], q[4]>> >>

\* The cube triangulated quad by quad; d[i] picks the diagonal of quad i.
CubeMesh(d) ==
    MakeMesh(CubePos,
             QuadTris(CubeQuads[1], d[1]) \o QuadTris(CubeQuads[2], d[2]) \o
             QuadTris(CubeQuads[3], d[3]) \o QuadTris(CubeQuads[4], d[4]) \o
             QuadTris(CubeQuads[5], d[5]) \o QuadTris(CubeQuads[6], d[6]))

CubeMeshes == { CubeMesh(d) : d \in [1..6 -> {0, 1}] }

\* A closed bipyramid over an octagon (vertices 0..7), apexes 8 and 9: no two
\* adjacent faces are more than 56 degrees apart.
BipyramidPos == << <<2, 1, 0>>, <<1, 2, 0>>, <<-1, 2, 0>>, <<-2, 1, 0>>,
                   <<-2, -1, 0>>, <<-1, -2, 0>>, <<1, -2, 0>>, <<2, -1, 0>>,
                   <<0, 0, 4>>, <<0, 0, -4>> >>

BipyramidTris ==
    [k \in 1..16 |->
        LET i == (k - 1) \div 2
            j == (i + 1) % 8
        IN  IF k % 2 = 1 THEN <<i, j, 8>> ELSE <<j, i, 9>>]

\* The bipyramid with its face list rotated by r places.
BipyramidMesh(r) ==
    MakeMesh(BipyramidPos, [k \in 1..16 |-> BipyramidTris[((k - 1 + r) % 16) + 1]])

BipyramidMeshes == { BipyramidMesh(r) : r \in 0..15 }

\* Triangles over the vertices 0..5 for the meshes handed to pack_uv_islands:
\* two that share no vertex, one that shares a vertex with each of them and
\* one that shares an edge with the first.
PackPool == { <<0, 1, 2>>, <<3, 4, 5>>, <<2, 3, 4>>, <<1, 3, 2>> }

PackMeshes ==
    { MakeMesh(PlanarPos, tris) :
        tris \in UNION { [1..n -> PackPool] : n \in 0..MaxPackFaces } }

\* UV pairs of three vertices, as fractions: a triangle that spans the unit
\* square, one of full width and half height, one of half width and full
\* height, one in the upper right quarter, one of no width and full height,
\* and one collapsed to the origin.
PackShapes ==
    { << <<<<0, 1>>, <<0, 1>>>>, <<<<1, 1>>, <<0, 1>>>>, <<<<0, 1>>, <<1, 1>>>> >>,
      << <<<<0, 1>>, <<0, 1>>>>, <<<<1, 1>>, <<0, 1>>>>, <<<<1, 2>>, <<1, 2>>>> >>,
      << <<<<0, 1>>, <<0, 1>>>>, <<<<1, 2>>, <<1, 2>>>>, <<<<0, 1>>, <<1, 1>>>> >>,
      << <<<<1, 2>>, <<1, 2>>>>, <<<<1, 1>>, <<1, 2>>>>, <<<<1, 1>>, <<1, 1>>>> >>,
      << <<<<0, 1>>, <<0, 1>>>>, <<<<0, 1>>, <<1, 1>>>>, <<<<0, 1>>, <<1, 1>>>> >>,
      << <<<<0, 1>>, <<0, 1>>>>, <<<<0, 1>>, <<0, 1>>>>, <<<<0, 1>>, <<0, 1>>>> >> }

\* The uvs arrays of six vertices: a shape for 0..2 and a shape for 3..5.
PackUvs == { Arr(a \o b) : a \in PackShapes, b \in PackShapes }

\* The margins of the calls: 0 and 1/4.
PackMargins == { <<0, 1>>, <<1, 4>> }

\* The face_island_ids arrays that number the islands of n faces in the
\* order of their first faces.
Labelings(n) ==
    { Arr(L) : L \in { M \in [1..n -> 0..(n - 1)] :
        \A i \in 1..n : M[i] <= Cardinality({M[j] : j \in 1..(i - 1)}) } }

\* The planar pool and three malformed triangles: one with an index equal to
\* the vertex count, one with a negative index and one whose three indices
\* are the same.
TopoPool == PlanarPool \cup { <<0, 1, 6>>, <<-1, 1, 2>>, <<2, 2, 2>> }

TopoMeshes ==
    { MakeMesh(PlanarPos, tris) :
        tris \in UNION { [1..n -> TopoPool] : n \in 0..MaxFaces } }

\* ---------------------------------------------------------- build_topology
\* An edge key that keeps the end points in the order the triangle gives them.
EdgeKeyAsGiven(a, b) == <<a, b>>

\* Edge::Edge: the smaller vertex index first.
EdgeKey(a, b) == IF a < b THEN <<a, b>> ELSE <<b, a>>

\* Edge::operator<
EdgeLess(k1, k2) == IF k1[1] # k2[1] THEN k1[1] < k2[1] ELSE k1[2] < k2[2]

\* EdgeInfo(): both faces absent.
EdgeInfoInit == <<-1, -1>>

\* The three directed edges of a triangle, in the order the source visits them.
TriEdges(t) == << <<t[1], t[2]>>, <<t[2], t[3]>>, <<t[3], t[1]>> >>

\* The passes of the two nested loops of build_topology, numbered in the
\* order the source makes them: pass 3*f + j handles edge j (1..3) of face f.
\* A triangle with an index outside 0..V-1 is skipped whole, an edge whose
\* two end points coincide is skipped alone.
EdgeUses(m) ==
    {u \in 1..(3 * m.num_triangles) :
        LET t == m.triangles[(u - 1) \div 3]
            e == TriEdges(t)[((u - 1) % 3) + 1]
        IN  /\ \A j \in 1..3 : t[j] >= 0 /\ t[j] < m.num_vertices
            /\ e[1] # e[2]}

\* The map key the pass u enters.
UseKey(m, u) ==
    LET e == TriEdges(m.triangles[(u - 1) \div 3])[((u - 1) % 3) + 1]
    IN  EdgeKey(e[1], e[2])

\* The EdgeInfo the map holds for key at the end of the loops: face0 is the
\* face of the first pass that entered the key, face1 the face of the second
\* one, and any later pass leaves the entry alone.
EdgeInfoOf(m, uses, key) ==
    LET us == {u \in uses : UseKey(m, u) = key}
        u0 == SetMin(us)
        rest == us \ {u0}
    IN  IF us = {} THEN EdgeInfoInit
        ELSE <<(u0 - 1) \div 3,
               IF rest = {} THEN -1 ELSE (SetMin(rest) - 1) \div 3>>

\* The keys of the edge map in std::map iteration order.
SortedKeys(K) ==
    Tuple([i \in 1..Cardinality(K) |->
              CHOOSE x \in K : Cardinality({y \in K : EdgeLess(y, x)}) = i - 1])

EmptyTopology == [num_edges |-> 0, edges |-> <<>>, edge_faces |-> <<>>]

\* The arrays filled from the map: keys holds the map's keys in order.
TopologyOf(m, uses, keys) ==
    IF Len(keys) = 0 THEN EmptyTopology
    ELSE [num_edges  |-> Len(keys),
          edges      |-> Arr(keys),
          edge_faces |-> Table([i \in 0..(Len(keys) - 1) |->
                                   EdgeInfoOf(m, uses, keys[i + 1])])]

TopologyOfUses(m, uses) ==
    TopologyOf(m, uses, SortedKeys({UseKey(m, u) : u \in uses}))

\* build_topology for a non-null mesh: edges[e] is the pair (v0, v1) and
\* edge_faces[e] the pair (face0, face1) of edge index e.
build_topology(m) ==
    IF m.num_vertices <= 0 \/ m.num_triangles <= 0 THEN EmptyTopology
    ELSE TopologyOfUses(m, EdgeUses(m))

\* A validation that rejects every mesh that is not closed and of genus 0.
validate_topology_strict(m, t) ==
    [ret   |-> IF m.num_vertices - t.num_edges + m.num_triangles = 2 THEN 1 ELSE 0,
     euler |-> m.num_vertices - t.num_edges + m.num_triangles]

\* validate_topology for a non-null mesh and topology: what it returns and
\* the Euler characteristic it prints.
validate_topology(m, t) ==
    [ret   |-> 1,
     euler |-> m.num_vertices - t.num_edges + m.num_triangles]

\* ------------------------------------------------------ get_edge_sharpness
\* Unnormalised normal of face f: cross(p1 - p0, p2 - p0).
FaceNormal(m, f) ==
    LET t == m.triangles[f]
        p0 == m.vertices[t[1]]
        p1 == m.vertices[t[2]]
        p2 == m.vertices[t[3]]
    IN  Cross3(Sub3(p1, p0), Sub3(p2, p0))

\* get_edge_sharpness: 1 - dot(n0, n1) of the two unit normals.  The value is
\* kept exactly as the pair <<d, p>> standing for 1 - d / sqrt(p), p > 0.  A
\* normal of length 0 is left unnormalised by the source, so the dot product
\* is 0; a missing face gives the constant 1.
get_edge_sharpness(m, f0, f1) ==
    IF f0 < 0 \/ f1 < 0 THEN <<0, 1>>
    ELSE LET n0 == FaceNormal(m, f0)
             n1 == FaceNormal(m, f1)
             a  == Dot3(n0, n0)
             b  == Dot3(n1, n1)
         IN  IF a = 0 \/ b = 0 THEN <<0, 1>>
             ELSE <<Dot3(n0, n1), a * b>>

\* c1 < c2 for cosines c = d / sqrt(p).
CosLess(c1, c2) ==
    IF c1[1] >= 0 /\ c2[1] >= 0 THEN c1[1] * c1[1] * c2[2] < c2[1] * c2[1] * c1[2]
    ELSE IF c1[1] < 0 /\ c2[1] < 0 THEN c1[1] * c1[1] * c2[2] > c2[1] * c2[1] * c1[2]
    ELSE c1[1] < 0

\* s1 < s2 for sharpness values (float operator<).
SharpLess(s1, s2) == CosLess(s2, s1)

\* The sharpness 0.5f of the seam filter, and the -1.0f that starts the
\* fallback maximum.
SharpHalf     == <<1, 4>>
SharpMinusOne == <<2, 1>>

\* --------------------------------------------------- compute_angular_defect
\* round(10^5 * cos^2((k + 1/2) degrees)), k = 0..89.
HalfCosSq ==
    <<
       99992, 99931, 99810, 99627, 99384, 99081, 98719, 98296, 97815, 97276,
       96679, 96025, 95315, 94550, 93731, 92858, 91934, 90958, 89932, 88857,
       87735, 86568, 85355, 84100, 82803, 81466, 80091, 78679, 77232, 75752,
       74240, 72700, 71131, 69537, 67918, 66278, 64619, 62941, 61248, 59540,
       57822, 56093, 54358, 52617, 50873, 49127, 47383, 45642, 43907, 42178,
       40460, 38752, 37059, 35381, 33722, 32082, 30463, 28869, 27300, 25760,
       24248, 22768, 21321, 19909, 18534, 17197, 15900, 14645, 13432, 12265,
       11143, 10068, 9042, 8066, 7142, 6269, 5450, 4685, 3975, 3321,
       2724, 2185, 1704, 1281, 919, 616, 373, 190, 69, 8
    >>

\* Angle between two integer vectors, to the nearest degree (0 when one of
\* them has length 0): an acute angle is the number of half-degree marks
\* whose squared cosine lies above that of the angle.
AcuteDeg(c2, q) ==
    Cardinality({k \in 1..90 : c2 * 100000 < HalfCosSq[k] * q})

AngleDeg(a, b) ==
    LET c == Dot3(a, b)
        q == Dot3(a, a) * Dot3(b, b)
    IN  IF q = 0 THEN 0
        ELSE IF c >= 0 THEN AcuteDeg(c * c, q)
        ELSE 180 - AcuteDeg(c * c, q)

\* compute_vertex_angle_in_triangle (math_utils): the angle of face f at its
\* first corner that holds vertex_idx, in degrees.
compute_vertex_angle_in_triangle(m, f, vertex_idx) ==
    LET t == m.triangles[f]
        j == CHOOSE i \in 1..3 : t[i] = vertex_idx /\ \A h \in 1..(i - 1) : t[h] # vertex_idx
        p == m.vertices[t[j]]
        a == m.vertices[t[(j % 3) + 1]]
        b == m.vertices[t[((j + 1) % 3) + 1]]
    IN  AngleDeg(Sub3(a, p), Sub3(b, p))

\* angle_sum over the faces fs[i..] that contain the vertex.
RECURSIVE AngleSum(_, _, _, _)
AngleSum(m, vertex_idx, fs, i) ==
    IF i > Len(fs) THEN 0
    ELSE compute_vertex_angle_in_triangle(m, fs[i], vertex_idx)
         + AngleSum(m, vertex_idx, fs, i + 1)

\* compute_angular_defect, in degrees: 360 - sum of the angles at the vertex.
compute_angular_defect(m, vertex_idx) ==
    IF vertex_idx < 0 \/ vertex_idx >= m.num_vertices THEN 0
    ELSE 360 - AngleSum(m, vertex_idx,
                        SortedSeq({f \in 0..(m.num_triangles - 1) :
                            \E j \in 1..3 : m.triangles[f][j] = vertex_idx}), 1)

\* defect_threshold = 0.5f radians is 28.65 degrees: an integer number of
\* degrees exceeds it exactly when it exceeds 28.
defect_threshold == 28

\* get_vertex_edges: the edge indices that touch vertex_idx, ascending.
get_vertex_edges(t, vertex_idx) ==
    SortedSeq({e \in 0..(t.num_edges - 1) :
                  t.edges[e][1] = vertex_idx \/ t.edges[e][2] = vertex_idx})

\* ------------------------------------------------------------ detect_seams
\* face_adj[f] of detect_seams before sorting: the (edge, other face) pairs of
\* face f in ascending edge order, over the edges with two recorded faces.
\* The entries that the edges es[i..] push on face_adj[f].
RECURSIVE DualEntries(_, _, _, _)
DualEntries(t, f, es, i) ==
    IF i > Len(es) THEN <<>>
    ELSE LET e  == es[i]
             f0 == t.edge_faces[e][1]
             f1 == t.edge_faces[e][2]
         IN  (IF f0 = f THEN << <<e, f1>> >> ELSE <<>>)
             \o (IF f1 = f THEN << <<e, f0>> >> ELSE <<>>)
             \o DualEntries(t, f, es, i + 1)

DualAdjOf(t, F, f) ==
    DualEntries(t, f,
        SortedSeq({e \in 0..(t.num_edges - 1) :
            LET f0 == t.edge_faces[e][1]
                f1 == t.edge_faces[e][2]
            IN  /\ f0 >= 0 /\ f1 >= 0 /\ f0 < F /\ f1 < F
                /\ (f0 = f \/ f1 = f)}), 1)

\* std::sort of one neighbour list by get_edge_sharpness(mesh, f, neighbour):
\* the lists have at most a handful of entries, which std::sort orders by
\* insertion, so equal keys keep their order.
RECURSIVE InsertBySharpness(_, _, _, _)
InsertBySharpness(m, f, L, x) ==
    IF L = <<>> THEN <<x>>
    ELSE LET y == L[Len(L)]
         IN  IF SharpLess(get_edge_sharpness(m, f, x[2]),
                          get_edge_sharpness(m, f, y[2]))
             THEN InsertBySharpness(m, f, SubSeq(L, 1, Len(L) - 1), x) \o <<y>>
             ELSE L \o <<x>>

RECURSIVE SortBySharpness(_, _, _, _)
SortBySharpness(m, f, L, done) ==
    IF L = <<>> THEN done
    ELSE SortBySharpness(m, f, Tail(L), InsertBySharpness(m, f, done, Head(L)))

SortedDualAdj(m, t) ==
    Table([f \in 0..(m.num_triangles - 1) |->
              SortBySharpness(m, f, DualAdjOf(t, m.num_triangles, f), <<>>)])

\* The BFS queue is served in runs: the faces pushed while the faces of one
\* run are dequeued form the next run, in the order they were pushed.  A
\* position <<i, j>> names neighbour j of the i-th face of the run; the for
\* loop reaches the positions in lexicographic order.
RunPositions(face_adj, q) ==
    {p \in (1..Len(q)) \X (1..3) : p[2] <= Len(face_adj[q[p[1]]])}

PosBefore(p1, p2) == p1[1] < p2[1] \/ (p1[1] = p2[1] /\ p1[2] < p2[2])

\* A visit that marks the faces it finds only when the run is over: a face
\* met twice in a run is pushed twice.
BfsPushesRepeated(face_adj, q, visited) ==
    {p \in RunPositions(face_adj, q) : face_adj[q[p[1]]][p[2]][2] \notin visited}

\* The positions at which the loop finds a face that is neither visited before
\* the run nor met at an earlier position of the run.
BfsPushes(face_adj, q, visited) ==
    LET P == RunPositions(face_adj, q)
        faceAt(p) == face_adj[q[p[1]]][p[2]][2]
    IN  {p \in P : /\ faceAt(p) \notin visited
                   /\ \A p2 \in P : PosBefore(p2, p) => faceAt(p2) # faceAt(p)}

\* A set of positions in the order the loop reaches them.
PosSeq(P) ==
    Tuple([k \in 1..Cardinality(P) |->
              CHOOSE p \in P : Cardinality({p2 \in P : PosBefore(p2, p)}) = k - 1])

\* The state after one run of the while loop, ps being the positions of the
\* run's pushes in order.
BfsPushed(face_adj, st, ps) ==
    [visited    |-> st.visited
                      \cup {face_adj[st.q[ps[k][1]]][ps[k][2]][2] : k \in 1..Len(ps)},
     tree_edges |-> st.tree_edges
                      \cup {face_adj[st.q[ps[k][1]]][ps[k][2]][1] : k \in 1..Len(ps)},
     q          |-> Tuple([k \in 1..Len(ps) |->
                              face_adj[st.q[ps[k][1]]][ps[k][2]][2]])]

\* One run of the while loop: every face of the queue is popped and its
\* neighbours are visited.
BfsVisit(face_adj, st) ==
    BfsPushed(face_adj, st, PosSeq(BfsPushes(face_adj, st.q, st.visited)))

\* The while loop of the BFS.
RECURSIVE BfsLoop(_, _)
BfsLoop(face_adj, st) ==
    IF st.q = <<>> THEN st ELSE BfsLoop(face_adj, BfsVisit(face_adj, st))

\* A BFS that visits the faces but records no tree edge.
BfsWithoutTree(face_adj) ==
    [BfsLoop(face_adj, [visited |-> {0}, tree_edges |-> {}, q |-> <<0>>])
        EXCEPT !.tree_edges = {}]

\* Spanning tree from face 0 (needs F > 0).
BfsFromFaceZero(face_adj) ==
    BfsLoop(face_adj, [visited |-> {0}, tree_edges |-> {}, q |-> <<0>>])

\* A detect_seams that forgets to leave the spanning tree out of the
\* candidates.
NonTreeEdgesWithTree(t, tree_edges) ==
    SortedSeq({e \in 0..(t.num_edges - 1) :
                  ~(t.edge_faces[e][1] < 0 \/ t.edge_faces[e][2] < 0)})

\* non_tree_edges: edges with two faces that are not tree edges, ascending.
NonTreeEdges(t, tree_edges) ==
    SortedSeq({e \in 0..(t.num_edges - 1) :
                  /\ ~(t.edge_faces[e][1] < 0 \/ t.edge_faces[e][2] < 0)
                  /\ e \notin tree_edges})

EdgeSharpness(m, t, e) ==
    get_edge_sharpness(m, t.edge_faces[e][1], t.edge_faces[e][2])

\* The filter: non-tree edges with sharpness > 0.5f.
SharpCandidates(m, t, non_tree_edges) ==
    {non_tree_edges[i] : i \in {j \in 1..Len(non_tree_edges) :
        SharpLess(SharpHalf, EdgeSharpness(m, t, non_tree_edges[j]))}}

\* The fallback loop: the first edge of strictly greatest sharpness.
RECURSIVE BestEdge(_, _, _, _, _)
BestEdge(m, t, L, best_e, max_s) ==
    IF L = <<>> THEN best_e
    ELSE LET s == EdgeSharpness(m, t, Head(L))
         IN  IF SharpLess(max_s, s) THEN BestEdge(m, t, Tail(L), Head(L), s)
             ELSE BestEdge(m, t, Tail(L), best_e, max_s)

\* A detect_seams without the fallback block.
WithoutFallback(m, t, non_tree_edges, seam_candidates) == seam_candidates

WithFallback(m, t, non_tree_edges, seam_candidates) ==
    IF seam_candidates = {} /\ non_tree_edges # <<>>
    THEN LET best_e == BestEdge(m, t, non_tree_edges, -1, SharpMinusOne)
         IN  IF best_e # -1 THEN {best_e} ELSE {}
    ELSE seam_candidates

\* A detect_seams without the angular defect refinement.
NoDefectEdges(m, t, non_tree_edges) == {}

\* A refinement that cuts every edge at a vertex of high defect, tree edge
\* and boundary edge included.
DefectEdgesOfAnyKind(m, t, non_tree_edges) ==
    {e \in 0..(t.num_edges - 1) :
        \E v \in 0..(m.num_vertices - 1) :
            /\ compute_angular_defect(m, v) > defect_threshold
            /\ e \in Range(get_vertex_edges(t, v))}

\* Angular defect refinement: the non-tree edges at a vertex whose defect
\* exceeds the threshold.
DefectEdges(m, t, non_tree_edges) ==
    {e \in Range(non_tree_edges) :
        \E v \in 0..(m.num_vertices - 1) :
            /\ compute_angular_defect(m, v) > defect_threshold
            /\ e \in Range(get_vertex_edges(t, v))}

\* What detect_seams leaves when it returns without a seam.
NoSeams == [tree_edges |-> {}, non_tree_edges |-> <<>>, seams |-> <<>>,
            num_seams |-> 0]

\* Step 5 of detect_seams: the returned array and *num_seams_out.
SeamResult(tree_edges, non_tree_edges, seam_candidates) ==
    IF seam_candidates = {}
    THEN [NoSeams EXCEPT !.tree_edges = tree_edges,
                         !.non_tree_edges = non_tree_edges]
    ELSE [tree_edges     |-> tree_edges,
          non_tree_edges |-> non_tree_edges,
          seams          |-> Arr(SortedSeq(seam_candidates)),
          num_seams      |-> Cardinality(seam_candidates)]

\* Steps 3 and 4: filter, fallback and angular defect refinement.
SeamsAmong(m, t, tree_edges, non_tree_edges) ==
    IF non_tree_edges = <<>>
    THEN [NoSeams EXCEPT !.tree_edges = tree_edges]
    ELSE SeamResult(tree_edges, non_tree_edges,
             WithFallback(m, t, non_tree_edges,
                          SharpCandidates(m, t, non_tree_edges))
                 \cup DefectEdges(m, t, non_tree_edges))

SeamsOutsideTree(m, t, tree_edges) ==
    SeamsAmong(m, t, tree_edges, NonTreeEdges(t, tree_edges))

\* A detect_seams that finds no seam once the threshold is a straight angle
\* or more.
detect_seams_below_threshold(m, t, angle_threshold) ==
    IF m.num_triangles <= 0 \/ t.num_edges <= 0 \/ angle_threshold >= 180
    THEN NoSeams
    ELSE SeamsOutsideTree(m, t, BfsFromFaceZero(SortedDualAdj(m, t)).tree_edges)

\* detect_seams for non-null arguments; angle_threshold is not read.  The
\* result carries the returned array (seams, index 0 first), *num_seams_out
\* and the locals tree_edges and non_tree_edges.
detect_seams(m, t, angle_threshold) ==
    IF m.num_triangles <= 0 \/ t.num_edges <= 0 THEN NoSeams
    ELSE SeamsOutsideTree(m, t, BfsFromFaceZero(SortedDualAdj(m, t)).tree_edges)

\* --------------------------------------------------------- extract_islands
\* face_adj of extract_islands: neighbours through the edges that are not in
\* the seam array and have both faces recorded, in ascending edge order.
RECURSIVE IslandEntries(_, _, _, _)
IslandEntries(t, f, es, i) ==
    IF i > Len(es) THEN <<>>
    ELSE LET f0 == t.edge_faces[es[i]][1]
             f1 == t.edge_faces[es[i]][2]
         IN  (IF f0 = f THEN <<f1>> ELSE <<>>)
             \o (IF f1 = f THEN <<f0>> ELSE <<>>)
             \o IslandEntries(t, f, es, i + 1)

\* An adjacency that does not look at the seam set.
IslandAdjAcrossSeams(t, seam_set, f) ==
    IslandEntries(t, f,
        SortedSeq({e \in 0..(t.num_edges - 1) :
            LET f0 == t.edge_faces[e][1]
                f1 == t.edge_faces[e][2]
            IN  f0 # -1 /\ f1 # -1 /\ (f0 = f \/ f1 = f)}), 1)

IslandAdjOf(t, seam_set, f) ==
    IslandEntries(t, f,
        SortedSeq({e \in 0..(t.num_edges - 1) :
            LET f0 == t.edge_faces[e][1]
                f1 == t.edge_faces[e][2]
            IN  /\ e \notin seam_set /\ f0 # -1 /\ f1 # -1
                /\ (f0 = f \/ f1 = f)}), 1)

\* for (int v : face_adj[u])
RECURSIVE LabelNeighbours(_, _, _, _)
LabelNeighbours(L, ids, q, current_island) ==
    IF L = <<>> THEN [ids |-> ids, q |-> q]
    ELSE LET v == Head(L)
         IN  IF ids[v] = -1
             THEN LabelNeighbours(Tail(L), [ids EXCEPT ![v] = current_island],
                                  Append(q, v), current_island)
             ELSE LabelNeighbours(Tail(L), ids, q, current_island)

\* while (!q.empty()); r is what the for loop over the neighbours of the
\* popped face left.
RECURSIVE LabelLoop(_, _, _, _)
LabelRest(face_adj, r, current_island) ==
    LabelLoop(face_adj, r.ids, r.q, current_island)

LabelLoop(face_adj, ids, q, current_island) ==
    IF q = <<>> THEN ids
    ELSE LabelRest(face_adj,
                   LabelNeighbours(face_adj[Head(q)], ids, Tail(q), current_island),
                   current_island)

\* for (start_face = 0; start_face < num_faces; start_face++)
RECURSIVE LabelFrom(_, _, _, _, _)
LabelFrom(face_adj, num_faces, ids, island_count, start_face) ==
    IF start_face >= num_faces
    THEN [face_island_ids |-> ids, num_islands |-> island_count]
    ELSE IF ids[start_face] # -1
    THEN LabelFrom(face_adj, num_faces, ids, island_count, start_face + 1)
    ELSE LabelFrom(face_adj, num_faces,
                   LabelLoop(face_adj, [ids EXCEPT ![start_face] = island_count],
                             <<start_face>>, island_count),
                   island_count + 1, start_face + 1)

\* An extract_islands that numbers the islands from the last one found to the
\* first.
Renumbered(r) ==
    [face_island_ids |-> Table([f \in DOMAIN r.face_island_ids |->
                                   r.num_islands - 1 - r.face_island_ids[f]]),
     num_islands     |-> r.num_islands]

extract_islands_last_first(m, t, seam_edges, num_seams) ==
    Renumbered(
        LabelFrom(Table([f \in 0..(m.num_triangles - 1) |->
                      IslandAdjOf(t, {seam_edges[i] : i \in 0..(num_seams - 1)}, f)]),
                  m.num_triangles,
                  Table([f \in 0..(m.num_triangles - 1) |-> -1]), 0, 0))

\* An extract_islands whose island counter starts at 1.
extract_islands_from_one(m, t, seam_edges, num_seams) ==
    LET num_faces == m.num_triangles
        seam_set  == {seam_edges[i] : i \in 0..(num_seams - 1)}
        face_adj  == Table([f \in 0..(num_faces - 1) |->
                               IslandAdjOf(t, seam_set, f)])
    IN  LabelFrom(face_adj, num_faces,
                  Table([f \in 0..(num_faces - 1) |-> -1]), 1, 0)

\* extract_islands: seam_edges is the array detect_seams returned (or any
\* other array of edge indices), num_seams its length.
extract_islands(m, t, seam_edges, num_seams) ==
    LET num_faces == m.num_triangles
        seam_set  == {seam_edges[i] : i \in 0..(num_seams - 1)}
        face_adj  == Table([f \in 0..(num_faces - 1) |->
                               IslandAdjOf(t, seam_set, f)])
    IN  LabelFrom(face_adj, num_faces,
                  Table([f \in 0..(num_faces - 1) |-> -1]), 0, 0)

\* ------------------------------------------------- exact arithmetic (reals)
\* The doubles and floats of the parameterizer are modelled by the numbers
\* they approximate: a fraction <<num, den>> in lowest terms with den > 0.
Abs(x) == IF x < 0 THEN -x ELSE x

\* Greatest common divisor of two naturals that are not both 0.
Gcd(a, b) ==
    IF a = 0 THEN b
    ELSE IF b = 0 THEN a
    ELSE SetMax({d \in 1..(IF a < b THEN a ELSE b) : a % d = 0 /\ b % d = 0})

Frac(num, den) ==
    LET g == Gcd(Abs(num), Abs(den))
    IN  IF den < 0 THEN <<(-num) \div g, (-den) \div g>>
        ELSE <<num \div g, den \div g>>

RZero == <<0, 1>>
ROne == <<1, 1>>
RAdd(x, y) == Frac(x[1] * y[2] + y[1] * x[2], x[2] * y[2])
RSub(x, y) == Frac(x[1] * y[2] - y[1] * x[2], x[2] * y[2])
RMul(x, y) == Frac(x[1] * y[1], x[2] * y[2])
RDiv(x, y) == Frac(x[1] * y[2], x[2] * y[1])
RNeg(x) == <<-x[1], x[2]>>
RLess(x, y) == x[1] * y[2] < y[1] * x[2]

\* Least / greatest of a non-empty set of fractions.
RMin(S) == CHOOSE x \in S : \A y \in S : ~RLess(y, x)
RMax(S) == CHOOSE x \in S : \A y \in S : ~RLess(x, y)

\* x < 1e-6f
BelowMicro(x) == x[1] <= 2147 /\ x[1] * 1000000 < x[2]

\* Length of a vector of integers whose length is an integer.
Norm(v) == CHOOSE k \in 0..Dot3(v, v) : k * k = Dot3(v, v)

\* -------------------------------------------------- find_boundary_vertices
\* face_indices is the island's face list, a sequence.  The result is the
\* boundary_out array as a sequence: the end points of the edges that the
\* island's faces use exactly once, ascending.
find_boundary_vertices(m, face_indices) ==
    LET uses == (1..Len(face_indices)) \X (1..3)
        keyOf(p) == LET e == TriEdges(m.triangles[face_indices[p[1]]])[p[2]]
                    IN  EdgeKey(e[1], e[2])
        once == {k \in {keyOf(p) : p \in uses} :
                    Cardinality({p \in uses : keyOf(p) = k}) = 1}
    IN  SortedSeq({k[1] : k \in once} \cup {k[2] : k \in once})

\* -------------------------------------------- normalize_uvs_to_unit_square
\* u_range / v_range: max - min, or 1.0f when that is below 1e-6f.
UvRange(lo, hi) ==
    IF BelowMicro(RSub(hi, lo)) THEN ROne ELSE RSub(hi, lo)

\* aspect > 4.0f || aspect < 0.25f, aspect = u_range / v_range
is_extreme_shape(u_range, v_range) ==
    \/ RLess(RMul(<<4, 1>>, v_range), u_range)
    \/ RLess(RMul(<<4, 1>>, u_range), v_range)

\* A uniform scaling by the smaller range.
min_range(u_range, v_range) == IF RLess(v_range, u_range) THEN v_range ELSE u_range

\* (u_range > v_range) ? u_range : v_range
max_range(u_range, v_range) == IF RLess(v_range, u_range) THEN u_range ELSE v_range

\* The loops that rewrite the pairs, for both shapes.
Rescale(uvs, idx, min_u, min_v, u_range, v_range) ==
    Table([i \in idx |->
        IF is_extreme_shape(u_range, v_range)
        THEN <<RDiv(RSub(uvs[i][1], min_u), max_range(u_range, v_range)),
               RDiv(RSub(uvs[i][2], min_v), max_range(u_range, v_range))>>
        ELSE <<RDiv(RSub(uvs[i][1], min_u), u_range),
               RDiv(RSub(uvs[i][2], min_v), v_range)>>])

\* <<min_u, max_u, min_v, max_v>>
UvBounds(uvs, idx) ==
    <<RMin({uvs[i][1] : i \in idx}), RMax({uvs[i][1] : i \in idx}),
      RMin({uvs[i][2] : i \in idx}), RMax({uvs[i][2] : i \in idx})>>

RescaleWithin(uvs, idx, b) ==
    Rescale(uvs, idx, b[1], b[3], UvRange(b[1], b[2]), UvRange(b[3], b[4]))

\* uvs is the array of (u, v) pairs of num_verts vertices.
normalize_uvs_to_unit_square(uvs, num_verts) ==
    IF num_verts = 0 THEN uvs
    ELSE RescaleWithin(uvs, 0..(num_verts - 1), UvBounds(uvs, 0..(num_verts - 1)))

\* ------------------------------------------------------- lscm_parameterize
\* The vertex at corner p[2] of the p[1]-th face of the list.
CornerVertex(m, face_indices, p) == m.triangles[face_indices[p[1]]][p[2]]

\* The corners at which the loops meet a vertex for the first time.
FirstCorners(m, face_indices, P) ==
    {p \in P : \A p2 \in P :
        PosBefore(p2, p) =>
            CornerVertex(m, face_indices, p2) # CornerVertex(m, face_indices, p)}

VerticesAt(m, face_indices, ps) ==
    Tuple([k \in 1..Len(ps) |-> CornerVertex(m, face_indices, ps[k])])

\* STEP 1: local_to_global, the vertices of the faces in first-seen order
\* (local index k - 1 at position k).
LocalToGlobal(m, face_indices) ==
    VerticesAt(m, face_indices,
        PosSeq(FirstCorners(m, face_indices, (1..Len(face_indices)) \X (1..3))))

\* global_to_local[global_idx]
GlobalToLocal(local_to_global, global_idx) ==
    (CHOOSE k \in 1..Len(local_to_global) : local_to_global[k] = global_idx) - 1

\* The island is rejected before any matrix is built.
TooSmallBelowTwo(n) == n < 2

TooSmall(n) == n < 3

\* The triangle in its own plane: with u_axis = e1/|e1|, normal =
\* (e1 x e2)/|e1 x e2| and v_axis = normal x u_axis the three corners are
\* q0 = (0, 0), q1 = (|e1|, 0) and q2 = (e2.e1/|e1|, |e1 x e2|/|e1|), and the
\* area is |e1 x e2|/2.  normalize() turns a vector shorter than 1e-10 into
\* 0, which for integer coordinates is the zero vector, and leaves area = 0.
LocalTriangle(m, f) ==
    LET t  == m.triangles[f]
        e1 == Sub3(m.vertices[t[2]], m.vertices[t[1]])
        e2 == Sub3(m.vertices[t[3]], m.vertices[t[1]])
        len1 == Norm(e1)
        len12 == Norm(Cross3(e1, e2))
    IN  IF len1 = 0 \/ len12 = 0
        THEN [area |-> RZero, q |-> <<RZero, RZero, RZero, RZero, RZero, RZero>>]
        ELSE [area |-> Frac(len12, 2),
              q    |-> <<RZero, RZero, Frac(len1, 1), RZero,
                         Frac(Dot3(e2, e1), len1), Frac(len12, len1)>>]

\* The entry of the directed edge from corner j to corner j2 of triangle t,
\* lt being the triangle in its plane.
EdgeTerm(local_to_global, t, lt, j, j2) ==
    [skip |-> lt.area = RZero,
     src  |-> GlobalToLocal(local_to_global, t[j]),
     tgt  |-> GlobalToLocal(local_to_global, t[j2]),
     adx  |-> RMul(lt.area, RSub(lt.q[2 * j2 - 1], lt.q[2 * j - 1])),
     ady  |-> RMul(lt.area, RSub(lt.q[2 * j2], lt.q[2 * j]))]

\* STEP 2, one entry per directed edge v0->v1, v1->v2, v2->v0 of every face
\* in turn: the row pair (local source vertex), the column pair (local
\* target vertex) and area*dx, area*dy; skip marks a face left out for zero
\* area.
EdgeTerms(m, face_indices, local_to_global) ==
    Tuple([k \in 1..(3 * Len(face_indices)) |->
        EdgeTerm(local_to_global,
                 m.triangles[face_indices[((k - 1) \div 3) + 1]],
                 LocalTriangle(m, face_indices[((k - 1) \div 3) + 1]),
                 ((k - 1) % 3) + 1, (k % 3) + 1)])

RECURSIVE RSum(_, _)
RSum(vals, i) == IF i > Len(vals) THEN RZero ELSE RAdd(vals[i], RSum(vals, i + 1))

\* What the triplets of entry k add to A(row, col); x is the value the entry
\* carries for the parity of row and col.
TripletValue(term, col, x) ==
    RSub(IF term.tgt = col \div 2 THEN x ELSE RZero,
         IF term.src = col \div 2 THEN x ELSE RZero)

TripletSum(terms, row, col, ks) ==
    RSum(Tuple([i \in 1..Len(ks) |->
             TripletValue(terms[ks[i]], col,
                 IF row % 2 = 0 /\ col % 2 = 0 THEN terms[ks[i]].adx
                 ELSE IF row % 2 = 1 /\ col % 2 = 1 THEN RNeg(terms[ks[i]].adx)
                 ELSE terms[ks[i]].ady)]), 1)

\* The coefficient A(row, col) after setFromTriplets, which adds up the
\* triplets of one position.
MatrixEntry(terms, row, col) ==
    TripletSum(terms, row, col,
        SortedSeq({k \in 1..Len(terms) :
                      /\ ~terms[k].skip
                      /\ terms[k].src = row \div 2
                      /\ col \div 2 \in {terms[k].src, terms[k].tgt}}))

\* (pos_i - pos_j).length() squared, for a pair p of positions of boundaries.
BoundaryDist2(m, boundaries, p) ==
    Dot3(Sub3(m.vertices[boundaries[p[1]]], m.vertices[boundaries[p[2]]]),
         Sub3(m.vertices[boundaries[p[1]]], m.vertices[boundaries[p[2]]]))

\* Loops that keep the first pair they meet.
FirstPair(m, boundaries, pairs) ==
    CHOOSE p \in pairs : \A p2 \in pairs : p2 = p \/ PosBefore(p, p2)

\* The pair i < j the two loops end with: the first one of strictly greatest
\* distance.
FarthestPair(m, boundaries, pairs) ==
    CHOOSE p \in pairs :
        \A p2 \in pairs :
            /\ BoundaryDist2(m, boundaries, p2) <= BoundaryDist2(m, boundaries, p)
            /\ PosBefore(p2, p) =>
                   BoundaryDist2(m, boundaries, p2) < BoundaryDist2(m, boundaries, p)

PinsAt(local_to_global, boundaries, best) ==
    <<GlobalToLocal(local_to_global, boundaries[best[1]]),
      GlobalToLocal(local_to_global, boundaries[best[2]])>>

PinsAmong(m, local_to_global, boundaries) ==
    IF Len(boundaries) >= 2
    THEN PinsAt(local_to_global, boundaries,
             FarthestPair(m, boundaries,
                 {p \in (1..Len(boundaries)) \X (1..Len(boundaries)) : p[1] < p[2]}))
    ELSE <<0, 1 % Len(local_to_global)>>

\* STEP 3: the local indices <<pin1, pin2>>.  With two or more boundary
\* vertices the loops keep the first pair i < j of strictly greatest squared
\* distance; otherwise pin1 = 0 and pin2 = (pin1 + 1) % n.
ChoosePins(m, face_indices, local_to_global) ==
    PinsAmong(m, local_to_global, find_boundary_vertices(m, face_indices))

\* STEP 4, the system handed to the solver: row r holds A(r, 0..2n-1) and in
\* column 2n the right-hand side b[r].  The rows of the four pinned unknowns
\* are zeroed, get 1 on the diagonal and the targets 0, 0, 1, 0 in b.
PinnedSystem(terms, n, pins) ==
    LET pinned_indices == <<2 * pins[1], 2 * pins[1] + 1,
                            2 * pins[2], 2 * pins[2] + 1>>
        targets == <<RZero, RZero, ROne, RZero>>
        slot(r) == CHOOSE p \in 1..4 :
                       pinned_indices[p] = r
                       /\ \A p2 \in (p + 1)..4 : pinned_indices[p2] # r
    IN  Table([r \in 0..(2 * n - 1) |->
            IF r \in Range(pinned_indices)
            THEN Table([c \in 0..(2 * n) |->
                     IF c = r THEN ROne
                     ELSE IF c = 2 * n THEN targets[slot(r)] ELSE RZero])
            ELSE Table([c \in 0..(2 * n) |->
                     IF c = 2 * n THEN RZero ELSE MatrixEntry(terms, r, c)])])

\* Exact elimination, column k onwards, of a system of N rows: the row pr of
\* the first non-zero entry of column k is scaled to 1 there (prow), moved to
\* row k and taken out of all other rows.  Without such a row the matrix is
\* singular.
ReducedRow(old, N, k, prow) ==
    IF old[k] = RZero THEN old
    ELSE Table([c \in 0..N |-> RSub(old[c], RMul(old[k], prow[c]))])

Reduced(M, N, k, pr, prow) ==
    Table([r \in 0..(N - 1) |->
        IF r = k THEN prow
        ELSE ReducedRow(IF r = pr THEN M[k] ELSE M[r], N, k, prow)])

ReducedAt(M, N, k, pr) ==
    Reduced(M, N, k, pr, Table([c \in 0..N |-> RDiv(M[pr][c], M[pr][k])]))

RECURSIVE Eliminate(_, _, _)
Eliminate(M, N, k) ==
    IF k = N THEN [ok |-> TRUE, M |-> M]
    ELSE IF \A r \in k..(N - 1) : M[r][k] = RZero THEN [ok |-> FALSE, M |-> M]
    ELSE Eliminate(ReducedAt(M, N, k, SetMin({r \in k..(N - 1) : M[r][k] # RZero})),
                   N, k + 1)

\* The solution read off the eliminated system r.
Solution(r, N) ==
    IF r.ok THEN [ok |-> TRUE, x |-> Table([i \in 0..(N - 1) |-> r.M[i][N]])]
    ELSE [ok |-> FALSE, x |-> <<>>]

\* SparseLU compute + solve: the solution x of A x = b, or failure when A is
\* singular.
SolveSystem(M, N) == Solution(Eliminate(M, N, 0), N)

\* What lscm_parameterize returns without UVs: uvs = NULL.
LscmNull(status, n) ==
    [status |-> status, n |-> n, assembled |-> FALSE, pins |-> <<>>, uvs |-> <<>>]

\* STEP 5 and the return: the solver's failure, or the normalized UVs.
LscmSolved(n, pins, sol) ==
    IF ~sol.ok
    THEN [LscmNull("lu_failed", n) EXCEPT !.assembled = TRUE, !.pins = pins]
    ELSE [status    |-> "ok",
          n         |-> n,
          assembled |-> TRUE,
          pins      |-> pins,
          uvs       |-> normalize_uvs_to_unit_square(
                            Table([i \in 0..(n - 1) |->
                                      <<sol.x[2 * i], sol.x[2 * i + 1]>>]), n)]

\* STEP 4 for the triplets of STEP 2 and the pins of STEP 3.
LscmPinned(terms, n, pins) ==
    LscmSolved(n, pins, SolveSystem(PinnedSystem(terms, n, pins), 2 * n))

\* The body of lscm_parameterize after STEP 1.
LscmMapped(m, face_indices, local_to_global) ==
    IF TooSmall(Len(local_to_global))
    THEN LscmNull("too_small", Len(local_to_global))
    ELSE LscmPinned(EdgeTerms(m, face_indices, local_to_global),
                    Len(local_to_global),
                    ChoosePins(m, face_indices, local_to_global))

\* lscm_parameterize for a non-null mesh and face list.  status is "ok" when
\* the uvs array (n pairs, local index order) is returned and names the
\* return NULL otherwise; assembled tells whether STEP 2 was reached.
lscm_parameterize(m, face_indices, num_faces) ==
    IF num_faces = 0 THEN LscmNull("no_faces", 0)
    ELSE LscmMapped(m, face_indices, LocalToGlobal(m, face_indices))

\* ------------------------------------------------------------ unwrap_mesh
\* The faces of one island, ascending (island_faces).
IslandFaces(face_island_ids, num_triangles, island) ==
    SortedSeq({f \in 0..(num_triangles - 1) : face_island_ids[f] = island})

\* The UV array in which the vertex at position k of local_to_global holds
\* pair k - 1 of island_uvs, the order in which lscm_parameterize returns
\* them.
CopyByMap(uvs, island_uvs, local_to_global) ==
    Table([g \in DOMAIN uvs |->
        IF g \in Range(local_to_global)
        THEN island_uvs[GlobalToLocal(local_to_global, g)]
        ELSE uvs[g]])

\* The corners tris[3*f + j] in the order the loops over the island's faces
\* reach them.
IslandCorners(m, island_faces) ==
    Tuple([k \in 1..(3 * Len(island_faces)) |->
              m.triangles[island_faces[((k - 1) \div 3) + 1]][((k - 1) % 3) + 1]])

\* A map that numbers the vertices of the island in ascending order.
GlobalToLocalAscending(corners) ==
    Table([g \in Range(corners) |-> Cardinality({h \in Range(corners) : h < g})])

\* The global_to_local map that unwrap_mesh rebuilds after lscm_parameterize
\* has returned: local_idx++ at the first corner that holds the vertex, so a
\* vertex is numbered by the vertices first met before it.
RebuiltGlobalToLocal(corners) ==
    Table([g \in Range(corners) |->
        Cardinality({h \in Range(corners) :
            SetMin({k \in DOMAIN corners : corners[k] = h})
                < SetMin({k \in DOMAIN corners : corners[k] = g})})])

\* The loops of copy_island_uvs: every corner found in the map takes the pair
\* at its local index.
CopyThrough(uvs, island_uvs, corners, global_to_local) ==
    Table([g \in DOMAIN uvs |->
        IF g \in Range(corners) /\ g \in DOMAIN global_to_local
        THEN island_uvs[global_to_local[g]]
        ELSE uvs[g]])

\* copy_island_uvs with the global_to_local map that unwrap_mesh rebuilds
\* from the island's faces.
CopyAlong(uvs, island_uvs, corners) ==
    CopyThrough(uvs, island_uvs, corners, RebuiltGlobalToLocal(corners))

copy_island_uvs(uvs, island_uvs, m, face_indices) ==
    CopyAlong(uvs, island_uvs, IslandCorners(m, face_indices))

\* The record of one pass of the island loop that did not call the
\* parameterizer.
Skipped(island_faces) ==
    [faces |-> island_faces, called |-> FALSE, r |-> LscmNull("skipped", 0)]

\* A loop that gives up at the first island the parameterizer fails on.
NextIslandStopOnFailure(r, island, num_islands) ==
    IF r.status = "ok" THEN island + 1 ELSE num_islands

\* island_id++ of the for loop, reached from the end of the body and from
\* both continue statements; r is what the parameterizer returned.
NextIsland(r, island, num_islands) == island + 1

\* The pass that called the parameterizer and got r.
Parameterized(m, num_islands, uvs, island, island_faces, r) ==
    [uvs     |-> IF r.status = "ok"
                 THEN copy_island_uvs(uvs, r.uvs, m, island_faces) ELSE uvs,
     attempt |-> [faces |-> island_faces, called |-> TRUE, r |-> r],
     next    |-> NextIsland(r, island, num_islands)]

\* A loop body without the min_island_faces test.
PassOverAlways(m, min_island_faces, num_islands, uvs, island, island_faces) ==
    Parameterized(m, num_islands, uvs, island, island_faces,
        lscm_parameterize(m, island_faces, Len(island_faces)))

\* The body of the loop for the faces of the island.
PassOver(m, min_island_faces, num_islands, uvs, island, island_faces) ==
    IF Len(island_faces) < min_island_faces
    THEN [uvs |-> uvs, attempt |-> Skipped(island_faces), next |-> island + 1]
    ELSE Parameterized(m, num_islands, uvs, island, island_faces,
             lscm_parameterize(m, island_faces, Len(island_faces)))

\* One pass of the island loop (STEP 4): the UV array after it, what the
\* pass did, and the next value of island_id.
IslandPass(m, min_island_faces, ids, num_islands, uvs, island) ==
    PassOver(m, min_island_faces, num_islands, uvs, island,
             IslandFaces(ids, m.num_triangles, island))

\* --------------------------------------------------------- pack_uv_islands
\* The vertices of the faces whose island id is island.
IslandVertices(m, face_ids, island) ==
    {m.triangles[f][j] : f \in {g \in 0..(m.num_triangles - 1) : face_ids[g] = island},
                         j \in 1..3}

\* One entry of the islands array from the bounds b of its vertices.
BoxOf(b) ==
    [has_faces |-> TRUE, min_u |-> b[1], max_u |-> b[2], min_v |-> b[3],
     max_v |-> b[4], width |-> RSub(b[2], b[1]), height |-> RSub(b[4], b[3])]

\* An island that no face names keeps min_u = FLT_MAX and gets width 0 and
\* height 0 (its bounds are never read).
IslandBox(uvs, V) ==
    IF V = {}
    THEN [has_faces |-> FALSE, min_u |-> RZero, max_u |-> RZero, min_v |-> RZero,
          max_v |-> RZero, width |-> RZero, height |-> RZero]
    ELSE BoxOf(UvBounds(uvs, V))

\* The islands array after the bounds and the dimensions are computed.
IslandBoxes(m, uvs, face_ids, num_islands) ==
    Table([i \in 0..(num_islands - 1) |->
              IslandBox(uvs, IslandVertices(m, face_ids, i))])

\* total_area: the margin-padded box areas of the islands that have faces.
RECURSIVE total_area(_, _, _)
total_area(islands, margin, i) ==
    IF i \notin DOMAIN islands THEN RZero
    ELSE RAdd(IF islands[i].has_faces
              THEN RMul(RAdd(islands[i].width, margin),
                        RAdd(islands[i].height, margin))
              ELSE RZero,
              total_area(islands, margin, i + 1))

\* std::sort of the island indices with the comparator height[a] > height[b]:
\* for the few islands here it is an insertion sort, which moves an index
\* left only past indices of strictly smaller height.
RECURSIVE InsertByHeight(_, _, _)
InsertByHeight(islands, L, x) ==
    IF L = <<>> THEN <<x>>
    ELSE IF RLess(islands[L[Len(L)]].height, islands[x].height)
         THEN InsertByHeight(islands, SubSeq(L, 1, Len(L) - 1), x) \o <<L[Len(L)]>>
         ELSE L \o <<x>>

RECURSIVE SortByHeight(_, _, _)
SortByHeight(islands, i, done) ==
    IF i \notin DOMAIN islands THEN done
    ELSE SortByHeight(islands, i + 1, InsertByHeight(islands, done, i))

sorted_indices(islands) == SortByHeight(islands, 0, <<>>)

\* current_x + isl.width > BIN_WIDTH, where BIN_WIDTH is sqrtf(area) for
\* area > 0 and 1.0f otherwise; the sum is not negative, so it is compared by
\* its square.
Wraps(st, island, area) ==
    IF RLess(RZero, area)
    THEN RLess(area, RMul(RAdd(st.current_x, island.width),
                          RAdd(st.current_x, island.width)))
    ELSE RLess(ROne, RAdd(st.current_x, island.width))

\* The loop state after the island idx is placed at (x, y) on a shelf of
\* height shelf.
PlacedAt(st, island, idx, margin, x, y, shelf) ==
    [current_x    |-> RAdd(RAdd(x, island.width), margin),
     current_y    |-> y,
     shelf_height |-> IF RLess(shelf, island.height) THEN island.height ELSE shelf,
     max_packed_w |-> IF RLess(st.max_packed_w, RAdd(RAdd(x, island.width), margin))
                      THEN RAdd(RAdd(x, island.width), margin)
                      ELSE st.max_packed_w,
     max_packed_h |-> IF RLess(st.max_packed_h, RAdd(y, island.height))
                      THEN RAdd(y, island.height) ELSE st.max_packed_h,
     target       |-> [st.target EXCEPT ![idx] = <<x, y>>]]

\* One pass of the shelf loop: an island of width 0 is passed over, the
\* others open a new shelf when they do not fit and are placed.
Place(st, island, idx, margin, area) ==
    IF island.width = RZero THEN st
    ELSE IF Wraps(st, island, area)
    THEN PlacedAt(st, island, idx, margin, RZero,
                  RAdd(RAdd(st.current_y, st.shelf_height), margin), island.height)
    ELSE PlacedAt(st, island, idx, margin, st.current_x, st.current_y,
                  st.shelf_height)

\* The loop state before the first pass.
ShelfStart(islands, order) ==
    [current_x    |-> RZero,
     current_y    |-> RZero,
     shelf_height |-> islands[order[1]].height,
     max_packed_w |-> RZero,
     max_packed_h |-> RZero,
     target       |-> Table([i \in DOMAIN islands |-> <<RZero, RZero>>])]

RECURSIVE ShelfLoop(_, _, _, _, _, _)
ShelfLoop(st, islands, order, k, margin, area) ==
    IF k > Len(order) THEN st
    ELSE ShelfLoop(Place(st, islands[order[k]], order[k], margin, area),
                   islands, order, k + 1, margin, area)

\* The shelf packing of the islands array (at least two entries).
ShelfPack(islands, order, margin) ==
    ShelfLoop(ShelfStart(islands, order), islands, order, 1, margin,
              total_area(islands, margin, 0))

\* The faces that give the vertex v an offset: vert_seen keeps the first.
OffsetFaces(m, face_ids, v) ==
    {f \in 0..(m.num_triangles - 1) :
        face_ids[f] >= 0 /\ v \in {m.triangles[f][j] : j \in 1..3}}

\* Offsets that the last face of a vertex decides.
OffsetUvOfLastFace(uv, F, face_ids, islands, target) ==
    IF F = {} THEN uv
    ELSE <<RAdd(uv[1], RSub(target[face_ids[SetMax(F)]][1],
                            islands[face_ids[SetMax(F)]].min_u)),
           RAdd(uv[2], RSub(target[face_ids[SetMax(F)]][2],
                            islands[face_ids[SetMax(F)]].min_v))>>

\* The pair of a vertex after the offsets are applied: a vertex of the faces
\* F takes target - min of the island of the first of them.
OffsetUv(uv, F, face_ids, islands, target) ==
    IF F = {} THEN uv
    ELSE <<RAdd(uv[1], RSub(target[face_ids[SetMin(F)]][1],
                            islands[face_ids[SetMin(F)]].min_u)),
           RAdd(uv[2], RSub(target[face_ids[SetMin(F)]][2],
                            islands[face_ids[SetMin(F)]].min_v))>>

max_dim(st) ==
    IF RLess(st.max_packed_w, st.max_packed_h) THEN st.max_packed_h
    ELSE st.max_packed_w

\* A packer that leaves the layout at the size the shelves gave it.
PackScaleNone(d) == ROne

\* scale = 1 / max_dim for max_dim > 1e-6, or 1 for a layout of no size.
PackScale(d) ==
    IF d[1] > 2147 \/ d[1] * 1000000 > d[2] THEN RDiv(ROne, d) ELSE ROne

\* The loop that multiplies every pair by scale.
ScaledBy(uvs, scale) ==
    Table([v \in DOMAIN uvs |-> <<RMul(uvs[v][1], scale), RMul(uvs[v][2], scale)>>])

\* STEP 4 and STEP 5 for the layout st.
Repositioned(m, uvs, face_ids, islands, st) ==
    ScaledBy([v \in DOMAIN uvs |->
                 OffsetUv(uvs[v], OffsetFaces(m, face_ids, v), face_ids, islands,
                          st.target)],
             PackScale(max_dim(st)))

PackedWith(m, uvs, face_ids, islands, margin) ==
    Repositioned(m, uvs, face_ids, islands,
                 ShelfPack(islands, sorted_indices(islands), margin))

\* A packer that leaves the early return only to a result without islands.
FewIslandsNone(num_islands) == num_islands <= 0

\* result->num_islands <= 1
FewIslands(num_islands) == num_islands <= 1

\* pack_uv_islands for non-null arguments: the uvs array of the mesh after the
\* call.  uvs is the array on entry, face_ids and num_islands are the
\* face_island_ids and num_islands of the result.
pack_uv_islands(m, uvs, face_ids, num_islands, margin) ==
    IF FewIslands(num_islands) THEN uvs
    ELSE PackedWith(m, uvs, face_ids,
                    IslandBoxes(m, uvs, face_ids, num_islands), margin)

\* ------------------------------------------------------------------ state
\* mesh, params : the arguments of the call
\* call         : "data" for unwrap_mesh_data, which hands unwrap_mesh non-null
\*                arguments; "null_mesh", "null_params", "null_result_out" for
\*                unwrap_mesh called with that argument null
\* pc           : how far the call has come
\* topo, seam, isl : what STEP 1, 2 and 3 produced
\* result       : the result mesh (null until allocated) and its uvs array
\* result_out   : *result_out
\* island_id    : the counter of the island loop
\* attempts     : what each pass of the island loop did, in order
\* uvs_out      : the caller's buffer of unwrap_mesh_data
\* ret          : what unwrap_mesh_data returned (-1: nothing yet)
\* buffers      : for the topology, the seam array and the face_island_ids
\*                array of the call: "none" before it is allocated (or when
\*                the pointer is NULL), "live", "freed", "freed_twice"
\* earlier      : what the call before this one was given and gave back, the
\*                block its uvs array occupied before it was freed (heap), and
\*                the uvs array as it was when pack_uv_islands was entered
NoIslands == [face_island_ids |-> <<>>, num_islands |-> 0, seam_edges |-> <<>>]
NullResult == [null |-> TRUE, uvs |-> <<>>]
NullResultOut == [null |-> TRUE, num_islands |-> 0, face_island_ids |-> <<>>]

\* The pair a buffer entry holds before anything is written to it.
Stale == <<<<-1, 1>>, <<-1, 1>>>>
FreshBuffer(m) ==
    [written |-> FALSE, data |-> Table([g \in 0..(m.num_vertices - 1) |-> Stale])]

\* Largest min_island_faces of a call.
MaxMinIslandFaces == 2

\* The params of the calls that do not ask for packing.
ParamsSet ==
    {[angle_threshold |-> 30, min_island_faces |-> k, pack_islands |-> 0,
      island_margin |-> RZero] : k \in 1..MaxMinIslandFaces}

\* No buffer of the call is allocated yet.
NoBuffers == [topo |-> "none", seam_edges |-> "none", face_island_ids |-> "none"]

\* free(p): nothing for a null pointer, and a block freed again is corrupted.
Free(b) ==
    IF b = "live" THEN "freed" ELSE IF b = "none" THEN "none" ELSE "freed_twice"

\* Before any call has returned.
NoEarlier ==
    [made |-> FALSE, params |-> <<>>, seam |-> NoSeams,
     result_out |-> NullResultOut, uvs_out |-> <<>>, ret |-> -1, heap |-> <<>>,
     uvs |-> <<>>]

NoMesh == MakeMesh(<<>>, <<>>)
PipelineMeshes == PoolMeshes \cup {FanMesh}

unwrapVars ==
    <<call, params, result, result_out, island_id, attempts, uvs_out, ret, earlier>>

InitUnwrap ==
    /\ topo = EmptyTopology
    /\ seam = NoSeams
    /\ isl = NoIslands
    /\ result = NullResult
    /\ result_out = NullResultOut
    /\ island_id = 0
    /\ attempts = <<>>
    /\ ret = -1
    /\ earlier = NoEarlier
    /\ buffers = NoBuffers

\* A call of unwrap_mesh_data, or of unwrap_mesh with a null argument.
Init ==
    /\ InitUnwrap
    /\ pc = "call"
    /\ \/ /\ call = "data"
          /\ mesh \in PipelineMeshes
          /\ params \in ParamsSet
       \/ /\ call \in {"null_mesh", "null_params", "null_result_out"}
          /\ mesh = IF call = "null_mesh" THEN NoMesh ELSE FanMesh
          /\ params \in {p \in ParamsSet : p.min_island_faces = 1}
    /\ uvs_out = FreshBuffer(mesh)

\* Seam detection and island extraction called on their own.
InitSeams ==
    /\ InitUnwrap
    /\ pc = "start"
    /\ call = "data"
    /\ mesh \in PoolMeshes \cup {FanMesh, StackMesh} \cup CubeMeshes
                \cup BipyramidMeshes
    /\ params \in {p \in ParamsSet : p.min_island_faces = 1}
    /\ uvs_out = FreshBuffer(mesh)

\* The argument check at the head of unwrap_mesh.
Enter ==
    /\ pc = "call"
    /\ pc' = IF call = "data" THEN "start" ELSE "returned"
    /\ UNCHANGED <<mesh, topo, seam, isl, unwrapVars, buffers>>

\* STEP 1 of unwrap_mesh: build_topology (validate_topology changes nothing).
BuildTopology ==
    /\ pc = "start"
    /\ topo' = build_topology(mesh)
    /\ buffers' = [buffers EXCEPT !.topo = "live"]
    /\ pc' = "topo"
    /\ UNCHANGED <<mesh, seam, isl, unwrapVars>>

\* STEP 1 when build_topology cannot allocate the TopologyInfo: it returns
\* NULL and unwrap_mesh returns NULL.
TopologyFails ==
    /\ pc = "start"
    /\ pc' = "failed"
    /\ UNCHANGED <<mesh, topo, seam, isl, unwrapVars, buffers>>

\* STEP 2: detect_seams.
DetectSeams ==
    /\ pc = "topo"
    /\ seam' = detect_seams(mesh, topo, params.angle_threshold)
    /\ buffers' = [buffers EXCEPT
                      !.seam_edges = IF seam'.num_seams > 0 THEN "live" ELSE "none"]
    /\ pc' = "seams"
    /\ UNCHANGED <<mesh, topo, isl, unwrapVars>>

\* The result r of extract_islands together with the seam array it was given.
WithSeams(r, seam_edges) ==
    [face_island_ids |-> r.face_island_ids, num_islands |-> r.num_islands,
     seam_edges |-> seam_edges]

IslandsFor(seam_edges, num_seams) ==
    WithSeams(extract_islands(mesh, topo, seam_edges, num_seams), seam_edges)

\* STEP 3: extract_islands on the seams just detected.
ExtractIslands ==
    /\ pc = "seams"
    /\ isl' = IslandsFor(seam.seams, seam.num_seams)
    /\ buffers' = [buffers EXCEPT !.face_island_ids = "live"]
    /\ pc' = "islands"
    /\ UNCHANGED <<mesh, topo, seam, unwrapVars>>

\* extract_islands called with any seam array of at most MaxSeamInput edges,
\* on the meshes of at most MaxFaces + 1 faces.
ExtractIslandsOf ==
    /\ pc = "seams"
    /\ mesh.num_triangles <= MaxFaces + 1
    /\ \E S \in SUBSET (0..(topo.num_edges - 1)) :
          /\ Cardinality(S) <= MaxSeamInput
          /\ isl' = IslandsFor(Arr(SortedSeq(S)), Cardinality(S))
    /\ buffers' = [buffers EXCEPT !.face_island_ids = "live"]
    /\ pc' = "islands"
    /\ UNCHANGED <<mesh, topo, seam, unwrapVars>>

\* An allocation that does not clear the block: a block of the right size
\* that was freed before comes back with what it held.
malloc_uvs(num_vertices, heap) ==
    IF DOMAIN heap = 0..(num_vertices - 1) THEN heap
    ELSE Table([g \in 0..(num_vertices - 1) |-> <<RZero, RZero>>])

\* calloc(mesh->num_vertices * 2, sizeof(float)): every pair is (0, 0)
\* whatever the block held before.
calloc_uvs(num_vertices, heap) ==
    Table([g \in 0..(num_vertices - 1) |-> <<RZero, RZero>>])

\* A failure path that returns without freeing anything.
ReleaseNothing(b) == b

\* free_topology(topo); free(seam_edges); free(face_island_ids) when the
\* result mesh cannot be allocated.
ReleaseOnFailure(b) ==
    [topo |-> Free(b.topo), seam_edges |-> Free(b.seam_edges),
     face_island_ids |-> Free(b.face_island_ids)]

\* The cleanup before unwrap_mesh returns the result: free_topology(topo);
\* free(seam_edges).  face_island_ids now belongs to the metadata.
ReleaseOnSuccess(b) ==
    [b EXCEPT !.topo = Free(b.topo), !.seam_edges = Free(b.seam_edges)]

\* allocate_mesh_copy (mesh.cpp) and the calloc of the uvs array: either the
\* copy is made, with all UVs 0, or unwrap_mesh frees what it built and
\* returns NULL.
AllocateResult ==
    /\ pc = "islands"
    /\ \/ /\ result' = [null |-> FALSE,
                        uvs  |-> calloc_uvs(mesh.num_vertices, earlier.heap)]
          /\ pc' = "param"
          /\ UNCHANGED buffers
       \/ /\ result' = NullResult
          /\ pc' = "failed"
          /\ buffers' = ReleaseOnFailure(buffers)
    /\ UNCHANGED <<mesh, topo, seam, isl, call, params, result_out, island_id,
                   attempts, uvs_out, ret, earlier>>

\* STEP 4: one pass of the island loop.
ParameterizeIsland ==
    /\ pc = "param"
    /\ island_id < isl.num_islands
    /\ \E pass \in {IslandPass(mesh, params.min_island_faces, isl.face_island_ids,
                                isl.num_islands, result.uvs, island_id)} :
          /\ result' = [result EXCEPT !.uvs = pass.uvs]
          /\ attempts' = Append(attempts, pass.attempt)
          /\ island_id' = pass.next
    /\ UNCHANGED <<mesh, topo, seam, isl, pc, call, params, result_out,
                   uvs_out, ret, earlier, buffers>>

\* The island loop is over: unwrap_mesh fills result_data, packs the islands
\* when params->pack_islands is set (STEP 5), sets *result_out and returns the
\* result mesh (the metrics of STEP 6 are not part of the state).
FinishUnwrap ==
    /\ pc = "param"
    /\ island_id >= isl.num_islands
    /\ result_out' = [null |-> FALSE, num_islands |-> isl.num_islands,
                      face_island_ids |-> isl.face_island_ids]
    /\ result' = IF params.pack_islands # 0
                 THEN [result EXCEPT !.uvs =
                          pack_uv_islands(mesh, result.uvs, isl.face_island_ids,
                                          isl.num_islands, params.island_margin)]
                 ELSE result
    /\ buffers' = ReleaseOnSuccess(buffers)
    /\ pc' = "done"
    /\ UNCHANGED <<mesh, topo, seam, isl, call, params, island_id,
                   attempts, uvs_out, ret, earlier>>

\* unwrap_mesh_data after unwrap_mesh has returned: 0 without a result,
\* otherwise the UVs are copied into the caller's buffer and 1 is returned.
ReturnData ==
    /\ pc \in {"done", "failed"}
    /\ call = "data"
    /\ IF result.null \/ result_out.null
       THEN ret' = 0 /\ UNCHANGED <<uvs_out, buffers>>
       ELSE /\ ret' = 1
            /\ uvs_out' = [written |-> TRUE, data |-> result.uvs]
            /\ buffers' = [buffers EXCEPT
                              !.face_island_ids = Free(buffers.face_island_ids)]
    /\ pc' = "returned"
    /\ UNCHANGED <<mesh, topo, seam, isl, call, params, result, result_out,
                   island_id, attempts, earlier>>

Next ==
    \/ Enter \/ BuildTopology \/ TopologyFails \/ DetectSeams \/ ExtractIslands
    \/ AllocateResult \/ ParameterizeIsland \/ FinishUnwrap \/ ReturnData

Spec == Init /\ [][Next]_vars

NextSeams == BuildTopology \/ DetectSeams \/ ExtractIslands \/ ExtractIslandsOf

SpecSeams == InitSeams /\ [][NextSeams]_vars

\* pack_uv_islands called on its own: a result mesh with its uvs array, the
\* face_island_ids of an UnwrapResult whose num_islands counts the islands
\* that have faces and at most one that has none, and a margin.
InitPack ==
    /\ topo = EmptyTopology
    /\ seam = NoSeams
    /\ result_out = NullResultOut
    /\ island_id = 0
    /\ attempts = <<>>
    /\ ret = -1
    /\ pc = "pack"
    /\ call = "pack"
    /\ mesh \in PackMeshes
    /\ \E ids \in Labelings(mesh.num_triangles), empty \in 0..1 :
          isl = [face_island_ids |-> ids,
                 num_islands |-> Cardinality(Range(ids)) + empty,
                 seam_edges |-> <<>>]
    /\ params \in {[angle_threshold |-> 30, min_island_faces |-> 1,
                     pack_islands |-> 1, island_margin |-> g] : g \in PackMargins}
    /\ \E uvs \in PackUvs :
          /\ result = [null |-> FALSE, uvs |-> uvs]
          /\ earlier = [NoEarlier EXCEPT !.uvs = uvs]
    /\ buffers = [NoBuffers EXCEPT !.face_island_ids = "live"]
    /\ uvs_out = FreshBuffer(mesh)

\* The call of pack_uv_islands.
PackIslands ==
    /\ pc = "pack"
    /\ result' = [result EXCEPT !.uvs =
                     pack_uv_islands(mesh, result.uvs, isl.face_island_ids,
                                     isl.num_islands, params.island_margin)]
    /\ pc' = "packed"
    /\ UNCHANGED <<mesh, topo, seam, isl, call, params, result_out, island_id,
                   attempts, uvs_out, ret, earlier, buffers>>

NextPack == PackIslands

SpecPack == InitPack /\ [][NextPack]_vars

\* normalize_uvs_to_unit_square called on its own, on an array of
\* MaxNormVerts pairs: the u coordinates are either 0 and a value less than
\* 1e-6, 0 among them, or a negative value, 0 and a large one, and the v
\* coordinates give aspects on both sides of 0.25 and 4.
MaxNormVerts == 3
MaxNormCoord == 9

NormVs == {<<-2, 1>>, RZero, <<MaxNormCoord - 2, 1>>}
NormArrays ==
    {uvs \in [0..(MaxNormVerts - 1) -> {RZero, <<1, 2000000>>} \X NormVs] :
        \E i \in DOMAIN uvs : uvs[i][1] = RZero}
    \cup [0..(MaxNormVerts - 1) -> {<<-1, 1>>, RZero, <<MaxNormCoord, 1>>} \X NormVs]

InitNorm ==
    /\ topo = EmptyTopology
    /\ seam = NoSeams
    /\ isl = [face_island_ids |-> <<>>, num_islands |-> 0, seam_edges |-> <<>>]
    /\ result_out = NullResultOut
    /\ island_id = 0
    /\ attempts = <<>>
    /\ ret = -1
    /\ pc = "normalize"
    /\ call = "normalize"
    /\ mesh = FanMesh
    /\ params \in {p \in ParamsSet : p.min_island_faces = 1}
    /\ \E uvs \in NormArrays :
          /\ result = [null |-> FALSE, uvs |-> uvs]
          /\ earlier = [NoEarlier EXCEPT !.uvs = uvs]
    /\ buffers = NoBuffers
    /\ uvs_out = FreshBuffer(mesh)

\* The call of normalize_uvs_to_unit_square on the array.
Normalize ==
    /\ pc = "normalize"
    /\ result' = [result EXCEPT !.uvs =
                     normalize_uvs_to_unit_square(result.uvs,
                                                  Cardinality(DOMAIN result.uvs))]
    /\ pc' = "normalized"
    /\ UNCHANGED <<mesh, topo, seam, isl, call, params, result_out, island_id,
                   attempts, uvs_out, ret, earlier, buffers>>

NextNorm == Normalize

SpecNorm == InitNorm /\ [][NextNorm]_vars

\* build_topology called on its own, on meshes that may hold malformed
\* triangles and on the mesh whose edges are used six times.
InitTopo ==
    /\ InitUnwrap
    /\ pc = "start"
    /\ call = "data"
    /\ mesh \in TopoMeshes \cup {StackMesh}
    /\ params \in {p \in ParamsSet : p.min_island_faces = 1}
    /\ uvs_out = FreshBuffer(mesh)

NextTopo == BuildTopology

SpecTopo == InitTopo /\ [][NextTopo]_vars

\* The angle_threshold values of the calls, in degrees.
AngleThresholds == {30, 180}

\* The params of the calls that are made twice: with and without packing.
AgainParamsSet ==
    {[angle_threshold |-> a, min_island_faces |-> k, pack_islands |-> p,
      island_margin |-> <<1, 4>>] :
        a \in AngleThresholds, k \in 1..MaxMinIslandFaces, p \in 0..1}

AgainMeshes ==
    {m \in PoolMeshes : m.num_triangles < MaxFaces} \cup {FanMesh, TailMesh}

\* unwrap_mesh_data called twice on the same mesh.
InitAgain ==
    /\ InitUnwrap
    /\ pc = "call"
    /\ call = "data"
    /\ mesh \in AgainMeshes
    /\ params \in AgainParamsSet
    /\ uvs_out = FreshBuffer(mesh)

\* The caller keeps what the first call gave back and calls again with the
\* same mesh and a fresh buffer, the params the same but for angle_threshold,
\* which is any of the values.  Every local of the first call is gone; the
\* block of its freed uvs array is what the heap may hand out again.
CallAgain ==
    /\ pc = "returned"
    /\ call = "data"
    /\ ~earlier.made
    /\ earlier' = [made |-> TRUE, params |-> params, seam |-> seam,
                   result_out |-> result_out, uvs_out |-> uvs_out, ret |-> ret,
                   heap |-> result.uvs, uvs |-> <<>>]
    /\ \E a \in AngleThresholds : params' = [params EXCEPT !.angle_threshold = a]
    /\ topo' = EmptyTopology
    /\ seam' = NoSeams
    /\ isl' = NoIslands
    /\ result' = NullResult
    /\ result_out' = NullResultOut
    /\ island_id' = 0
    /\ attempts' = <<>>
    /\ ret' = -1
    /\ uvs_out' = FreshBuffer(mesh)
    /\ buffers' = NoBuffers
    /\ pc' = "call"
    /\ UNCHANGED <<mesh, call>>

\* Two calls in which build_topology gets its memory.
NextAgain ==
    \/ Enter \/ BuildTopology \/ DetectSeams \/ ExtractIslands
    \/ AllocateResult \/ ParameterizeIsland \/ FinishUnwrap \/ ReturnData
    \/ CallAgain

SpecAgain == InitAgain /\ [][NextAgain]_vars

\* ------------------------------------------- properties: seams and islands
Faces == 0..(mesh.num_triangles - 1)
EdgeIds == 0..(topo.num_edges - 1)

\* detect_seams / extract_islands have returned.
SeamsDone == pc \in {"seams", "islands", "param", "failed", "done"}
IslandsDone == pc \in {"islands", "param", "failed", "done"}

\* The seam array that detect_seams returned and the one that extract_islands
\* was given, as sets.
SeamSet == {seam.seams[i] : i \in 0..(seam.num_seams - 1)}
IslandSeamSet == Range(isl.seam_edges)

\* Edges with two recorded faces.
TwoFaceEdges ==
    {e \in EdgeIds : topo.edge_faces[e][1] >= 0 /\ topo.edge_faces[e][2] >= 0}

\* For every face, the faces that are equal to it or lie across one two-face
\* edge outside S.
StepOver(S) ==
    LET E == TwoFaceEdges \ S
    IN  Table([f \in Faces |->
            {f} \cup {topo.edge_faces[e][1] : e \in {d \in E : topo.edge_faces[d][2] = f}}
                \cup {topo.edge_faces[e][2] : e \in {d \in E : topo.edge_faces[d][1] = f}}])

\* The faces within two steps of N.
Widen(N) == Table([f \in DOMAIN N |-> UNION {N[g] : g \in N[f]}])

\* For every face, the faces joined to it by a path of at most 16 such edges
\* (no mesh here has more faces).
PathJoined(S) == Widen(Widen(Widen(Widen(StepOver(S)))))

\* C1: after extract_islands every face holds exactly one island id, the id
\* lies in [0, num_islands), and every id in [0, num_islands) is held by a face.
C1_IslandsPartition ==
    IslandsDone =>
        /\ DOMAIN isl.face_island_ids = Faces
        /\ \A f \in Faces : isl.face_island_ids[f] \in 0..(isl.num_islands - 1)
        /\ \A i \in 0..(isl.num_islands - 1) :
              \E f \in Faces : isl.face_island_ids[f] = i

\* Three faces in two islands.
C1_Witness ==
    /\ IslandsDone
    /\ isl.num_islands = 2
    /\ mesh.num_triangles = 3

\* C2: two faces hold the same island id exactly when a path of edges that
\* are not seams and have two recorded faces joins them.
C2_SameIslandIffJoined ==
    IslandsDone =>
        PathJoined(IslandSeamSet) =
            [f \in Faces |->
                {g \in Faces : isl.face_island_ids[g] = isl.face_island_ids[f]}]

\* Two faces across a seam edge in different islands, and two distinct faces
\* in one island.
C2_Witness ==
    /\ IslandsDone
    /\ \E e \in TwoFaceEdges \cap IslandSeamSet :
          isl.face_island_ids[topo.edge_faces[e][1]]
              # isl.face_island_ids[topo.edge_faces[e][2]]
    /\ \E f, g \in Faces : f # g /\ isl.face_island_ids[f] = isl.face_island_ids[g]

\* Sharpness of an edge of the current topology.
SharpnessOf(e) == EdgeSharpness(mesh, topo, e)

\* The seam candidates: edges with two faces outside the BFS spanning tree.
Candidates == Range(seam.non_tree_edges)

\* C5 as stated: whenever two different faces share an edge, detect_seams
\* returns at least one seam.
C5_SeamWheneverFacesShareEdge ==
    SeamsDone =>
        ((\E e \in TwoFaceEdges : topo.edge_faces[e][1] # topo.edge_faces[e][2])
            => seam.num_seams > 0)

\* C5: detect_seams returns an empty seam set exactly when every edge with two
\* recorded faces belongs to the BFS spanning tree, which has one edge per
\* face reached from face 0 other than face 0 itself.
C5_EmptyIffOnlyTreeEdges ==
    SeamsDone =>
        /\ seam.tree_edges \subseteq TwoFaceEdges
        /\ (seam.num_seams = 0) <=> (TwoFaceEdges = seam.tree_edges)

\* Two different faces share an edge and no seam is returned.
C5_Witness ==
    /\ SeamsDone
    /\ seam.num_seams = 0
    /\ \E e \in TwoFaceEdges : topo.edge_faces[e][1] # topo.edge_faces[e][2]

\* C6: when a seam candidate exists at least one seam is returned, and when no
\* candidate has sharpness above 0.5 a candidate of maximum sharpness is
\* among the seams.
C6_CandidateGivesSeam ==
    (SeamsDone /\ Candidates # {}) =>
        /\ seam.num_seams >= 1
        /\ SeamSet \subseteq Candidates
        /\ (\A e \in Candidates : ~SharpLess(SharpHalf, SharpnessOf(e)))
              => \E s \in SeamSet :
                    \A e \in Candidates : ~SharpLess(SharpnessOf(s), SharpnessOf(e))

\* Several candidates, none sharp, and the forced one is the only seam.
C6_Witness ==
    /\ SeamsDone
    /\ Cardinality(Candidates) >= 2
    /\ \A e \in Candidates : ~SharpLess(SharpHalf, SharpnessOf(e))
    /\ seam.num_seams = 1

\* An edge of the unit cube: its end points lie at distance 1.
CubeEdge(e) ==
    LET d == Sub3(mesh.vertices[topo.edges[e][1]], mesh.vertices[topo.edges[e][2]])
    IN  Dot3(d, d) = 1

\* C7 as stated: on the unit cube every seam is one of the 12 cube edges and
\* no diagonal of a quad face is a seam.
C7_CubeSeamsAreCubeEdges ==
    (SeamsDone /\ mesh \in CubeMeshes) => \A e \in SeamSet : CubeEdge(e)

\* Every edge is used by exactly two faces.
ClosedMesh ==
    /\ topo.num_edges > 0
    /\ \A e \in EdgeIds :
          Cardinality({f \in Faces :
              {topo.edges[e][1], topo.edges[e][2]} \subseteq Range(mesh.triangles[f])}) = 2

NoSharpEdge == \A e \in TwoFaceEdges : ~SharpLess(SharpHalf, SharpnessOf(e))

\* The faces form one piece when no edge is cut.
ConnectedMesh == \A f \in Faces : PathJoined({})[f] = Faces

\* detect_seams and extract_islands ran one after the other on a closed,
\* connected mesh without a sharp edge.
SmoothClosedRun ==
    /\ IslandsDone
    /\ isl.seam_edges = seam.seams
    /\ ClosedMesh /\ ConnectedMesh /\ NoSharpEdge

ForcedSeam(e) ==
    /\ e \in Candidates
    /\ \A e2 \in Candidates :
          /\ ~SharpLess(SharpnessOf(e), SharpnessOf(e2))
          /\ e2 < e => SharpLess(SharpnessOf(e2), SharpnessOf(e))

\* An end point of the edge has angular defect above the threshold.
AtDefectVertex(e) ==
    \E j \in 1..2 :
        compute_angular_defect(mesh, topo.edges[e][j]) > defect_threshold

Returned == pc = "returned"
ReportsFailure == IF call = "data" THEN ret = 0 ELSE result.null
InvalidInput == call # "data" \/ mesh.num_triangles = 0

\* C3: invalid top-level input (null mesh, null params, a mesh with zero
\* triangles) makes the entry point report failure and write nothing, and
\* whenever the entry point reports failure the caller's UV buffer has not
\* been written.
C3_InvalidInputFails ==
    Returned =>
        /\ InvalidInput => ReportsFailure /\ ~uvs_out.written
        /\ ReportsFailure => ~uvs_out.written

\* Attempt a called the parameterizer, which failed.
FailedAttempt(a) == a.called /\ a.r.status # "ok"

\* unwrap_mesh has returned a result mesh.
Unwrapped == pc = "done" \/ (Returned /\ ret = 1)

\* C4: a pass of the island loop in which lscm_parameterize fails leaves
\* every UV of the result as it was and moves on to the next island; when
\* unwrap_mesh returns, every island has had its pass, in order, each island
\* of at least min_island_faces faces was handed to the parameterizer, and
\* the result mesh and the metadata are there.
C4_FailureIsIsolated ==
    /\ [][(attempts' # attempts /\ FailedAttempt(attempts'[Len(attempts')]))
            => /\ result' = result
               /\ island_id' = island_id + 1
               /\ pc' = "param"]_vars
    /\ [](Unwrapped =>
            /\ ~result.null /\ ~result_out.null
            /\ result_out.num_islands = isl.num_islands
            /\ Len(attempts) = isl.num_islands
            /\ \A k \in 1..Len(attempts) :
                  /\ attempts[k].faces =
                         IslandFaces(isl.face_island_ids, mesh.num_triangles, k - 1)
                  /\ attempts[k].called =
                         (Len(attempts[k].faces) >= params.min_island_faces))

\* unwrap_mesh has returned after the parameterizer failed on one island and
\* parameterized a later one, whose UVs are in the result.
C4_Witness ==
    /\ pc = "done"
    /\ \E k \in 1..Len(attempts) : \E h \in (k + 1)..Len(attempts) :
          /\ FailedAttempt(attempts[k])
          /\ attempts[h].called /\ attempts[h].r.status = "ok"
          /\ \E g \in Range(LocalToGlobal(mesh, attempts[h].faces)) :
                result.uvs[g] # <<RZero, RZero>>

\* Face f has three different vertices that are not on one line.
NonDegenerate(f) ==
    /\ Cardinality(Range(mesh.triangles[f])) = 3
    /\ LocalTriangle(mesh, f).area # RZero

\* Twice the signed area of the UV triangle p, q, r.
UvArea2(p, q, r) ==
    RSub(RMul(RSub(q[1], p[1]), RSub(r[2], p[2])),
         RMul(RSub(r[1], p[1]), RSub(q[2], p[2])))

\* C9: an island of exactly one non-degenerate triangle is parameterized
\* into a UV triangle of positive area: the three UV points returned are
\* pairwise distinct and not on one line.
C9_SingleTriangleHasArea ==
    \A k \in 1..Len(attempts) :
        (/\ attempts[k].called
         /\ Len(attempts[k].faces) = 1
         /\ NonDegenerate(attempts[k].faces[1]))
        => /\ attempts[k].r.status = "ok"
           /\ attempts[k].r.uvs[0] # attempts[k].r.uvs[1]
           /\ attempts[k].r.uvs[1] # attempts[k].r.uvs[2]
           /\ attempts[k].r.uvs[0] # attempts[k].r.uvs[2]
           /\ UvArea2(attempts[k].r.uvs[0], attempts[k].r.uvs[1],
                      attempts[k].r.uvs[2]) # RZero

\* The number of distinct vertices the faces of attempt a touch.
DistinctVertices(a) ==
    Cardinality({mesh.triangles[a.faces[i]][j] : i \in 1..Len(a.faces), j \in 1..3})

\* C10: lscm_parameterize returns NULL, before any matrix is assembled, for
\* every island whose faces touch fewer than 3 distinct vertices, and goes on
\* to assemble the matrix for every island of 3 or more distinct vertices.
C10_RejectsBelowThreeVertices ==
    \A k \in 1..Len(attempts) :
        attempts[k].called =>
            /\ DistinctVertices(attempts[k]) < 3 =>
                  /\ attempts[k].r.status = "too_small"
                  /\ ~attempts[k].r.assembled
                  /\ attempts[k].r.uvs = <<>>
            /\ DistinctVertices(attempts[k]) >= 3 => attempts[k].r.assembled

\* One call handed the parameterizer an island of two distinct vertices,
\* which it rejected, and an island of three or more, which it assembled.
C10_Witness ==
    /\ \E k \in 1..Len(attempts) :
          /\ attempts[k].called
          /\ DistinctVertices(attempts[k]) = 2
          /\ attempts[k].r.status = "too_small"
    /\ \E k \in 1..Len(attempts) :
          /\ attempts[k].called
          /\ DistinctVertices(attempts[k]) >= 3
          /\ attempts[k].r.assembled

\* The islands (numbered from 1, as in attempts) with fewer faces than
\* min_island_faces.
SmallIslands ==
    {k \in 1..Len(attempts) : Len(attempts[k].faces) < params.min_island_faces}

\* The vertices that only faces of small islands use.
SmallIslandVertices ==
    {g \in 0..(mesh.num_vertices - 1) :
        /\ \E f \in Faces : g \in Range(mesh.triangles[f])
        /\ \A f \in Faces : g \in Range(mesh.triangles[f]) =>
              \E k \in SmallIslands : f \in Range(attempts[k].faces)}

\* C19: the pass of an island with fewer faces than min_island_faces does
\* not call the parameterizer, writes no UV and moves on; when unwrap_mesh
\* returns, it returns a result (no error), the island counts in num_islands,
\* its faces keep their island id and the vertices that only such islands
\* use still hold the UV (0, 0) they were allocated with.
C19_SmallIslandLeftAlone ==
    /\ [][(attempts' # attempts
             /\ Len(attempts'[Len(attempts')].faces) < params.min_island_faces)
            => /\ ~attempts'[Len(attempts')].called
               /\ result' = result
               /\ island_id' = island_id + 1
               /\ pc' = "param"]_vars
    /\ [](Unwrapped =>
            /\ ~result.null /\ ~result_out.null
            /\ Returned => ret = 1
            /\ \A k \in SmallIslands :
                  /\ ~attempts[k].called
                  /\ k - 1 < result_out.num_islands
                  /\ \A f \in Range(attempts[k].faces) :
                        result_out.face_island_ids[f] = k - 1
            /\ \A g \in SmallIslandVertices : result.uvs[g] = <<RZero, RZero>>)

\* An island of one face was passed over for min_island_faces = 2 while an
\* island of two faces of the same mesh was parameterized, and the call
\* returned 1.
C19_Witness ==
    /\ Returned /\ ret = 1
    /\ \E k \in SmallIslands : Len(attempts[k].faces) = 1
    /\ \E h \in 1..Len(attempts) :
          attempts[h].called /\ attempts[h].r.status = "ok"
    /\ SmallIslandVertices # {}

\* ------------------------------------------------------ properties: packing
\* pack_uv_islands has returned.
Packed == pc = "packed"

IslandIds == 0..(isl.num_islands - 1)

\* The boxes of the islands on entry and after the call, from the vertices of
\* their faces.
EntryBoxes ==
    IslandBoxes(mesh, earlier.uvs, isl.face_island_ids, isl.num_islands)
PackedBoxes ==
    IslandBoxes(mesh, result.uvs, isl.face_island_ids, isl.num_islands)

InUnitInterval(x) == ~RLess(x, RZero) /\ ~RLess(ROne, x)
InUnitSquare(uv) == InUnitInterval(uv[1]) /\ InUnitInterval(uv[2])

\* The island's box lies in the unit square and spans it in at least one
\* direction, or the island is a single point.
OccupiesUnitSquare(b) ==
    /\ InUnitInterval(b.min_u) /\ InUnitInterval(b.max_u)
    /\ InUnitInterval(b.min_v) /\ InUnitInterval(b.max_v)
    /\ \/ b.width = ROne
       \/ b.height = ROne
       \/ b.width = RZero /\ b.height = RZero

\* The entry condition of the packer: at least two islands, every island
\* that has faces occupies the unit square, every pair of the uvs array lies
\* in it, and the margin is not negative.
PackEntry ==
    /\ isl.num_islands >= 2
    /\ \A i \in IslandIds :
          EntryBoxes[i].has_faces => OccupiesUnitSquare(EntryBoxes[i])
    /\ \A v \in DOMAIN earlier.uvs : InUnitSquare(earlier.uvs[v])
    /\ ~RLess(params.island_margin, RZero)

\* C11: after pack_uv_islands on at least two islands that each occupy the
\* unit square on entry, with a margin >= 0, every vertex UV lies in [0,1]^2.
C11_PackedInsideUnitSquare ==
    (Packed /\ PackEntry) => \A v \in DOMAIN result.uvs : InUnitSquare(result.uvs[v])

\* Two islands of positive width were placed and the layout was rescaled.
C11_Witness ==
    /\ Packed
    /\ PackEntry
    /\ Cardinality({i \in IslandIds : RLess(RZero, EntryBoxes[i].width)}) >= 2
    /\ result.uvs # earlier.uvs
    /\ \E v \in DOMAIN result.uvs : result.uvs[v][1] = ROne \/ result.uvs[v][2] = ROne

\* The open boxes of two islands that have faces have a point in common.
InteriorsMeet(a, b) ==
    /\ a.has_faces /\ b.has_faces
    /\ RLess(a.min_u, b.max_u) /\ RLess(b.min_u, a.max_u)
    /\ RLess(a.min_v, b.max_v) /\ RLess(b.min_v, a.max_v)

\* Some vertex belongs to faces of both islands.
ShareVertex(i, j) ==
    IslandVertices(mesh, isl.face_island_ids, i)
        \cap IslandVertices(mesh, isl.face_island_ids, j) # {}

\* C12: after pack_uv_islands with a margin >= 0 no two distinct islands
\* overlap: their boxes, computed from the vertices of their faces after
\* packing, have disjoint interiors.
C12_IslandsDoNotOverlap ==
    (Packed /\ PackEntry) =>
        \A i, j \in IslandIds :
            i # j => ~InteriorsMeet(PackedBoxes[i], PackedBoxes[j])

\* C13: pack_uv_islands on a result of 0 or 1 islands returns at once and
\* leaves every UV as it was.
C13_FewIslandsUntouched ==
    (Packed /\ isl.num_islands <= 1) => result.uvs = earlier.uvs

\* A single island that does not sit at the origin was handed over and left
\* alone.
C13_Witness ==
    /\ Packed
    /\ isl.num_islands = 1
    /\ EntryBoxes[0].has_faces
    /\ RLess(RZero, EntryBoxes[0].min_u)
    /\ result.uvs = earlier.uvs

\* ----------------------------------------------------- properties: topology
\* build_topology has returned.
TopologyBuilt == pc # "call" /\ pc # "start" /\ pc # "pack" /\ pc # "packed"

OutOfRange(t) == \E j \in 1..3 : t[j] < 0 \/ t[j] >= mesh.num_vertices
RepeatedIndex(t) == t[1] = t[2] \/ t[2] = t[3] \/ t[3] = t[1]

\* The faces whose triangle has three distinct indices in range.
WellFormedFaces ==
    {f \in Faces : ~OutOfRange(mesh.triangles[f]) /\ ~RepeatedIndex(mesh.triangles[f])}

\* The unordered vertex pairs that are sides of the triangle of face f.
SidesOf(f) ==
    {{mesh.triangles[f][j], mesh.triangles[f][(j % 3) + 1]} : j \in 1..3}
        \ {{mesh.triangles[f][j]} : j \in 1..3}

\* The faces recorded for edge e.
RecordedFaces(e) == {topo.edge_faces[e][1], topo.edge_faces[e][2]} \ {-1}

StoredPair(e) == {topo.edges[e][1], topo.edges[e][2]}

\* C15: build_topology skips a triangle with an out-of-range or a repeated
\* vertex index as a whole (it contributes no edge and no face adjacency),
\* processes every other triangle and returns a topology.
C15_MalformedTrianglesSkipped ==
    TopologyBuilt =>
        /\ \A e \in EdgeIds : RecordedFaces(e) \subseteq WellFormedFaces
        /\ \A e \in EdgeIds : \E f \in WellFormedFaces : StoredPair(e) \in SidesOf(f)
        /\ \A f \in WellFormedFaces : \A s \in SidesOf(f) :
              \E e \in EdgeIds : StoredPair(e) = s

\* The faces in range that have the stored pair of edge e among their sides,
\* ascending: the triangles that use the edge, in the order they are seen.
UsersOf(e) ==
    SortedSeq({f \in Faces : ~OutOfRange(mesh.triangles[f])
                              /\ StoredPair(e) \in SidesOf(f)})

\* C16: an edge used by one triangle has face0 = that face and face1 = -1;
\* an edge used by two or more triangles has the first two of them, in the
\* order seen, as face0 and face1, whatever uses it later.
C16_FacesInOrderSeen ==
    TopologyBuilt =>
        \A e \in EdgeIds :
            /\ Len(UsersOf(e)) >= 1
            /\ topo.edge_faces[e][1] = UsersOf(e)[1]
            /\ topo.edge_faces[e][2] =
                  IF Len(UsersOf(e)) = 1 THEN -1 ELSE UsersOf(e)[2]

\* C17: every stored edge has v0 < v1, no vertex pair is stored twice, and
\* every stored edge has one or two recorded faces, face0 being a face of the
\* mesh.
C17_CanonicalUniqueEdges ==
    TopologyBuilt =>
        /\ \A e \in EdgeIds : topo.edges[e][1] < topo.edges[e][2]
        /\ \A e1, e2 \in EdgeIds : StoredPair(e1) = StoredPair(e2) => e1 = e2
        /\ \A e \in EdgeIds :
              /\ topo.edge_faces[e][1] \in Faces
              /\ topo.edge_faces[e][2] \in Faces \cup {-1}
              /\ Cardinality(RecordedFaces(e)) \in {1, 2}

\* A topology with an edge that one triangle gave as (hi, lo) and another as
\* (lo, hi), next to a boundary edge.
C17_Witness ==
    /\ TopologyBuilt
    /\ \E e \in EdgeIds :
          /\ topo.edge_faces[e][2] >= 0
          /\ topo.edge_faces[e][1] # topo.edge_faces[e][2]
          /\ \E j \in 1..3 :
                /\ mesh.triangles[topo.edge_faces[e][1]][j] = topo.edges[e][2]
                /\ mesh.triangles[topo.edge_faces[e][1]][(j % 3) + 1] = topo.edges[e][1]
    /\ \E e \in EdgeIds : topo.edge_faces[e][2] = -1

\* The distinct unordered vertex pairs that are sides of the triangles in
\* range.
UniqueSides ==
    UNION {SidesOf(f) : f \in {g \in Faces : ~OutOfRange(mesh.triangles[g])}}

\* C18: validate_topology computes V - E + F from the vertex count, the
\* number of unique edges and the triangle count; the cube gives 2; whatever
\* the value, validation returns 1 and the pipeline goes on to seam detection.
C18_EulerIsInformational ==
    /\ [](TopologyBuilt =>
            /\ validate_topology(mesh, topo).ret = 1
            /\ validate_topology(mesh, topo).euler =
                  mesh.num_vertices - Cardinality(UniqueSides) + mesh.num_triangles
            /\ (mesh \in CubeMeshes => validate_topology(mesh, topo).euler = 2))
    /\ [][pc = "topo" => pc' = "seams"]_vars

\* A mesh whose Euler characteristic is not 2 went through validation and on
\* to seam detection and island extraction.
C18_Witness ==
    /\ IslandsDone
    /\ mesh.num_triangles >= 2
    /\ validate_topology(mesh, topo).euler # 2
    /\ validate_topology(mesh, topo).ret = 1

\* ------------------------------------------------- properties: two calls
\* The second call has returned.
ReturnedAgain == Returned /\ earlier.made

\* Both calls gave the same seams, and, when both returned 1, the same
\* island count, island ids and UVs.
SameResults ==
    /\ ret = earlier.ret
    /\ seam.num_seams = earlier.seam.num_seams
    /\ seam.seams = earlier.seam.seams
    /\ result_out = earlier.result_out
    /\ uvs_out = earlier.uvs_out

\* C14: two calls of the pipeline on the same mesh with the same params that
\* both return a result give identical seams, island ids and UVs.
C14_SameInputSameOutput ==
    (ReturnedAgain /\ params = earlier.params /\ ret = 1 /\ earlier.ret = 1)
        => SameResults

\* Two calls with the same params that packed two islands, one of which was
\* not parameterized, returned 1 with the same UVs.
C14_Witness ==
    /\ ReturnedAgain
    /\ params = earlier.params
    /\ ret = 1 /\ earlier.ret = 1
    /\ params.pack_islands = 1
    /\ result_out.num_islands >= 2
    /\ \E k \in 1..Len(attempts) : ~attempts[k].called
    /\ \E g \in DOMAIN uvs_out.data : uvs_out.data[g] # <<RZero, RZero>>
    /\ SameResults

\* C20: two calls that differ in angle_threshold only and both return a
\* result give identical seams, island ids and UVs.
C20_ThresholdIsNotRead ==
    (ReturnedAgain /\ params.angle_threshold # earlier.params.angle_threshold
        /\ ret = 1 /\ earlier.ret = 1)
        => SameResults

\* Two calls with thresholds 30 and 180 returned the same seams.
C20_Witness ==
    /\ ReturnedAgain
    /\ params.angle_threshold # earlier.params.angle_threshold
    /\ ret = 1 /\ earlier.ret = 1
    /\ seam.num_seams >= 1
    /\ seam.seams = earlier.seam.seams
    /\ uvs_out = earlier.uvs_out


\* ---------------------------------------------------------------------------
\* The buffers of one call of unwrap_mesh
\* ---------------------------------------------------------------------------

\* unwrap_mesh has returned: NULL ("failed") or the result mesh ("done").
UnwrapReturned == pc \in {"done", "failed"}

\* C21: on every return path of unwrap_mesh (no topology, no result mesh,
\* success) the topology and the seam array the call created have been freed,
\* each exactly once, when it returns; of the call's buffers only the
\* face_island_ids array is still allocated, and only next to a returned
\* result mesh, whose metadata holds it.
C21_BuffersReleasedOnReturn ==
    UnwrapReturned =>
        /\ buffers.topo \in {"none", "freed"}
        /\ buffers.seam_edges \in {"none", "freed"}
        /\ pc = "done" => buffers.topo = "freed" /\ buffers.face_island_ids = "live"
        /\ pc = "failed" => buffers.face_island_ids \in {"none", "freed"}
        /\ buffers.face_island_ids = "live" => ~result_out.null

\* The result mesh could not be allocated after seams had been found.
C21_Witness ==
    /\ pc = "failed"
    /\ seam.num_seams > 0
    /\ buffers = [topo |-> "freed", seam_edges |-> "freed",
                  face_island_ids |-> "freed"]

\* ---------------------------------------------------------------------------
\* The island loop in another order
\* ---------------------------------------------------------------------------

\* The island loop of STEP 4 has run to its end.
LoopOver == pc = "param" /\ island_id >= isl.num_islands

\* The entries of the UV array the pass for the island writes: those of the
\* vertices of its faces, when lscm_parameterize returned UVs for it.
WrittenBy(island) ==
    IF attempts[island + 1].called /\ attempts[island + 1].r.status = "ok"
    THEN Range(LocalToGlobal(mesh,
                   IslandFaces(isl.face_island_ids, mesh.num_triangles, island)))
    ELSE {}

\* The UV array after the passes of the loop for the islands of order, one
\* after the other.
RECURSIVE UvsInOrder(_, _, _, _, _, _)
UvsInOrder(m, min_island_faces, ids, num_islands, uvs, order) ==
    IF order = <<>>
    THEN uvs
    ELSE UvsInOrder(m, min_island_faces, ids, num_islands,
             IslandPass(m, min_island_faces, ids, num_islands, uvs,
                        Head(order)).uvs,
             Tail(order))

\* Every order in which the islands can be taken.
IslandOrders ==
    {o \in [1..isl.num_islands -> IslandIds] :
        \A i, j \in 1..isl.num_islands : i # j => o[i] # o[j]}

\* C22: the passes of the island loop write disjoint entries of the UV array,
\* so that taking the islands in any order leaves the UV array the loop leaves.
C22_IslandsWriteDisjointEntries ==
    LoopOver =>
        /\ \A i, j \in IslandIds : i # j => WrittenBy(i) \cap WrittenBy(j) = {}
        /\ \A order \in IslandOrders :
              UvsInOrder(mesh, params.min_island_faces, isl.face_island_ids,
                         isl.num_islands, calloc_uvs(mesh.num_vertices, earlier.heap),
                         order) = result.uvs

\* ---------------------------------------------------------------------------
\* The BFS tree of detect_seams
\* ---------------------------------------------------------------------------

\* The faces a path of tree edges joins to face 0, and the faces any path of
\* two-face edges joins to it.
ReachedByTree == PathJoined(TwoFaceEdges \ seam.tree_edges)[0]
ReachableFromZero == PathJoined({})[0]

\* C23 as stated: the tree edges of the BFS from face 0 form a spanning tree of
\* the dual graph: they join every face to face 0 and there is one edge fewer
\* than faces, so they close no cycle.
C23_TreeSpansAllFaces ==
    (SeamsDone /\ mesh.num_triangles > 0) =>
        /\ seam.tree_edges \subseteq TwoFaceEdges
        /\ ReachedByTree = Faces
        /\ Cardinality(seam.tree_edges) = mesh.num_triangles - 1

\* C23: the tree edges of the BFS from face 0 form a spanning tree of the part
\* of the dual graph that face 0 is joined to: they join to face 0 exactly the
\* faces that two-face edges join to it, and there is one edge fewer than such
\* faces, so they close no cycle.  They span all faces exactly when the dual
\* graph is connected.
C23_TreeSpansFacesOfFaceZero ==
    (SeamsDone /\ mesh.num_triangles > 0) =>
        /\ seam.tree_edges \subseteq TwoFaceEdges
        /\ ReachedByTree = ReachableFromZero
        /\ Cardinality(seam.tree_edges) = Cardinality(ReachableFromZero) - 1
        /\ (ReachedByTree = Faces) <=> (ReachableFromZero = Faces)

\* A tree of two edges or more in a mesh with a face that no path joins to
\* face 0, and a tree over all faces of a mesh with an edge left over.
C23_Witness ==
    /\ SeamsDone
    /\ Cardinality(seam.tree_edges) >= 1
    /\ ReachableFromZero # Faces

\* ---------------------------------------------------------------------------
\* The seams returned by detect_seams
\* ---------------------------------------------------------------------------

\* C24: every edge that detect_seams returns has two adjacent faces and is not
\* an edge of the BFS tree, the edges added for vertices of high angular
\* defect included; no tree edge and no boundary edge is ever returned.
C24_SeamsAreNonTreeTwoFaceEdges ==
    SeamsDone =>
        /\ \A i \in 0..(seam.num_seams - 1) :
              /\ seam.seams[i] \in TwoFaceEdges
              /\ seam.seams[i] \notin seam.tree_edges
        /\ SeamSet \cap (seam.tree_edges \cup (EdgeIds \ TwoFaceEdges)) = {}

\* Two seams or more, one of them not sharp: the angular defect of a vertex
\* has added a seam; the mesh has tree edges and boundary edges at vertices
\* of high defect.
C24_Witness ==
    /\ SeamsDone
    /\ \E s, s2 \in SeamSet : s # s2 /\ ~SharpLess(SharpHalf, SharpnessOf(s))
    /\ seam.tree_edges # {}
    /\ \E v \in 0..(mesh.num_vertices - 1) :
          /\ compute_angular_defect(mesh, v) > defect_threshold
          /\ Range(get_vertex_edges(topo, v)) \cap seam.tree_edges # {}

\* ---------------------------------------------------------------------------
\* Island 0
\* ---------------------------------------------------------------------------

\* extract_islands has been given the seam array that detect_seams returned.
IslandsOfDetectedSeams ==
    /\ IslandsDone
    /\ isl.seam_edges = seam.seams
    /\ mesh.num_triangles > 0

\* C25: after detect_seams and extract_islands every face that a path of
\* two-face edges joins to face 0 is in island 0, whatever seams were
\* returned; when such paths join all faces there is exactly one island.
C25_FacesOfFaceZeroInIslandZero ==
    IslandsOfDetectedSeams =>
        /\ \A f \in ReachableFromZero : isl.face_island_ids[f] = 0
        /\ ReachableFromZero = Faces => isl.num_islands = 1

\* A mesh with a connected dual graph on which seams were returned.
C25_Witness ==
    /\ IslandsOfDetectedSeams
    /\ seam.num_seams >= 2
    /\ ReachableFromZero = Faces
    /\ isl.num_islands = 1

\* ---------------------------------------------------------------------------
\* The two vertex maps of an island
\* ---------------------------------------------------------------------------

\* The last pass of the island loop called lscm_parameterize and got UVs.
LastPass == attempts[Len(attempts)]
PassCopied ==
    /\ pc = "param"
    /\ attempts # <<>>
    /\ LastPass.called /\ LastPass.r.status = "ok"

\* C26: the global_to_local map that unwrap_mesh rebuilds for an island is the
\* map lscm_parameterize built for it: the vertices of the island's faces
\* numbered 0, 1, 2, ... in the order they are first met; so after the copy
\* the vertex that lscm_parameterize numbered k holds the k-th pair of the
\* array it returned.
C26_RebuiltMapIsLscmMap ==
    PassCopied =>
        /\ DOMAIN RebuiltGlobalToLocal(IslandCorners(mesh, LastPass.faces))
              = Range(LocalToGlobal(mesh, LastPass.faces))
        /\ \A k \in 1..Len(LocalToGlobal(mesh, LastPass.faces)) :
              /\ RebuiltGlobalToLocal(IslandCorners(mesh, LastPass.faces))
                     [LocalToGlobal(mesh, LastPass.faces)[k]] = k - 1
              /\ result.uvs[LocalToGlobal(mesh, LastPass.faces)[k]]
                     = LastPass.r.uvs[k - 1]
        /\ Len(LocalToGlobal(mesh, LastPass.faces)) = LastPass.r.n

\* An island whose vertices are not first met in ascending order has been
\* copied, and its pairs are not all equal.
C26_Witness ==
    /\ PassCopied
    /\ \E k \in 2..Len(LocalToGlobal(mesh, LastPass.faces)) :
          /\ LocalToGlobal(mesh, LastPass.faces)[k]
                 < LocalToGlobal(mesh, LastPass.faces)[k - 1]
          /\ LastPass.r.uvs[k - 1] # LastPass.r.uvs[k - 2]

\* ---------------------------------------------------------------------------
\* The order of the island ids
\* ---------------------------------------------------------------------------

\* The first face of an island: the face at which its flood fill started.
RootOf(island) == SetMin({f \in Faces : isl.face_island_ids[f] = island})

\* C27: extract_islands numbers the islands in the order in which the scan
\* over the faces finds their first faces: face 0 is in island 0, and of two
\* islands the one with the smaller id has the smaller first face.
C27_IslandIdsFollowFirstFaces ==
    (IslandsDone /\ mesh.num_triangles > 0) =>
        /\ isl.face_island_ids[0] = 0
        /\ \A j, k \in IslandIds : j < k => RootOf(j) < RootOf(k)

\* Two islands of which the first holds a face behind the first face of the
\* second.
C27_Witness ==
    /\ IslandsDone
    /\ isl.num_islands = 2
    /\ \E f, g \in Faces : f < g /\ isl.face_island_ids[f] > isl.face_island_ids[g]

\* ---------------------------------------------------------------------------
\* The pinned vertices of lscm_parameterize
\* ---------------------------------------------------------------------------

\* The last pass of the island loop called lscm_parameterize, which reached
\* STEP 3.
PassPinned ==
    /\ pc = "param"
    /\ attempts # <<>>
    /\ LastPass.called /\ LastPass.r.assembled

\* The squared distance of two vertices.
VertexDist2(g, h) ==
    Dot3(Sub3(mesh.vertices[g], mesh.vertices[h]),
         Sub3(mesh.vertices[g], mesh.vertices[h]))

\* The vertices pinned in the last pass and the boundary vertices of its
\* island.
PinnedVertices ==
    <<LocalToGlobal(mesh, LastPass.faces)[LastPass.r.pins[1] + 1],
      LocalToGlobal(mesh, LastPass.faces)[LastPass.r.pins[2] + 1]>>
BoundaryOfLast == Range(find_boundary_vertices(mesh, LastPass.faces))

\* The pins are two local indices; p1 and p2 are the vertices they stand
\* for and B is the boundary of the island.
PinsChosen(pins, n, p1, p2, B) ==
    /\ Len(pins) = 2
    /\ pins[1] # pins[2]
    /\ \A i \in 1..2 : pins[i] \in 0..(n - 1)
    /\ IF Cardinality(B) >= 2
       THEN /\ p1 \in B /\ p2 \in B
            /\ \A g, h \in B : VertexDist2(g, h) <= VertexDist2(p1, p2)
       ELSE pins = <<0, 1>>

\* The system of the last pass, and the row that fixes unknown r to the
\* target: 1 on the diagonal, 0 elsewhere, the target on the right.
SystemOfLast ==
    PinnedSystem(EdgeTerms(mesh, LastPass.faces, LocalToGlobal(mesh, LastPass.faces)),
                 LastPass.r.n, LastPass.r.pins)
FixesTo(M, n, r, target) ==
    M[r] = [c \in 0..(2 * n) |->
               IF c = r THEN ROne ELSE IF c = 2 * n THEN target ELSE RZero]
FixesPins(M, n, pins) ==
    /\ FixesTo(M, n, 2 * pins[1], RZero)
    /\ FixesTo(M, n, 2 * pins[1] + 1, RZero)
    /\ FixesTo(M, n, 2 * pins[2], ROne)
    /\ FixesTo(M, n, 2 * pins[2] + 1, RZero)

Normalized == pc = "normalized"
NormIn == earlier.uvs
NormOut == result.uvs

\* Per axis (1 = u, 2 = v): the least input coordinate, the extent of the
\* input, whether the extent is below 1e-6, and the extent with 1 in place of
\* an extent below 1e-6.
NormFloor(axis) == RMin({NormIn[i][axis] : i \in DOMAIN NormIn})
NormExtent(axis) ==
    RSub(RMax({NormIn[i][axis] : i \in DOMAIN NormIn}), NormFloor(axis))
NormFlat(axis) == RLess(NormExtent(axis), <<1, 1000000>>)
NormDivisor(axis) == IF NormFlat(axis) THEN ROne ELSE NormExtent(axis)

\* aspect > 4 or aspect < 0.25, and the larger of the two divisors.
NormExtreme ==
    \/ RLess(RMul(<<4, 1>>, NormDivisor(2)), NormDivisor(1))
    \/ RLess(RMul(<<4, 1>>, NormDivisor(1)), NormDivisor(2))
NormLarger ==
    IF RLess(NormDivisor(1), NormDivisor(2)) THEN NormDivisor(2) ELSE NormDivisor(1)

\* The greatest output coordinate of an axis.
NormTop(axis) == RMax({NormOut[i][axis] : i \in DOMAIN NormOut})

\* The least corner of the box goes to the origin and every output
\* coordinate lies in [0, 1]; for an extreme aspect both axes are divided by
\* the larger extent.
NormMovedAndBounded ==
    /\ \A axis \in 1..2 :
          /\ RMin({NormOut[i][axis] : i \in DOMAIN NormOut}) = RZero
          /\ \A i \in DOMAIN NormOut :
                ~RLess(NormOut[i][axis], RZero) /\ ~RLess(ROne, NormOut[i][axis])
    /\ NormExtreme =>
          \A i \in DOMAIN NormOut, axis \in 1..2 :
              NormOut[i][axis] =
                  RDiv(RSub(NormIn[i][axis], NormFloor(axis)), NormLarger)

\* C29 as stated: the least corner goes to the origin and the output lies in
\* [0, 1]; an extreme aspect gives a uniform division by the larger extent,
\* any other aspect a box that is exactly the unit square.
C29_NormalShapeFillsUnitSquare ==
    Normalized =>
        /\ NormMovedAndBounded
        /\ ~NormExtreme => NormTop(1) = ROne /\ NormTop(2) = ROne

\* C29: the least corner goes to the origin and the output lies in [0, 1]; an
\* extent below 1e-6 counts as 1, in the aspect too; an extreme aspect gives
\* a uniform division by the larger extent; for any other aspect each axis is
\* divided by its own extent, so that the box is exactly [0, 1] on every axis
\* whose extent is at least 1e-6, while an axis of smaller extent is only
\* moved and stays below 1e-6.
C29_NormalShapeFillsWhereNotFlat ==
    Normalized =>
        /\ NormMovedAndBounded
        /\ ~NormExtreme =>
              \A axis \in 1..2 :
                  /\ \A i \in DOMAIN NormOut :
                        NormOut[i][axis] =
                            RDiv(RSub(NormIn[i][axis], NormFloor(axis)),
                                 NormDivisor(axis))
                  /\ IF NormFlat(axis)
                     THEN RLess(NormTop(axis), <<1, 1000000>>)
                     ELSE NormTop(axis) = ROne

\* A shape that is not extreme with a u extent below 1e-6 that is not 0, and
\* a v extent of 2 or more.
C29_Witness ==
    /\ Normalized
    /\ ~NormExtreme
    /\ NormFlat(1) /\ NormExtent(1) # RZero
    /\ ~RLess(NormExtent(2), <<2, 1>>)
    /\ NormTop(2) = ROne

\* ---------------------------------------------------------------------------
\* The offsets of pack_uv_islands
\* ---------------------------------------------------------------------------

\* The packer went past its early return and has returned.
Moved == Packed /\ isl.num_islands >= 2

\* The faces that hold the vertex.
FacesAt(v) == {f \in Faces : \E j \in 1..3 : mesh.triangles[f][j] = v}

\* The offset target - min of an island whose box on entry is box.
OffsetOf(layout, boxes, island) ==
    <<RSub(layout.target[island][1], boxes[island].min_u),
      RSub(layout.target[island][2], boxes[island].min_v)>>

\* The pair on entry moved by the offset and scaled.
MovedBy(uv, offset, scale) ==
    <<RMul(RAdd(uv[1], offset[1]), scale), RMul(RAdd(uv[2], offset[2]), scale)>>

\* Every vertex has moved with the first face that holds it, or not at all,
\* for the layout of the shelves, the boxes on entry and the scale of STEP 5.
MovesWithFirstFace(layout, boxes, scale) ==
    \A v \in DOMAIN result.uvs :
        result.uvs[v] =
            IF FacesAt(v) = {}
            THEN MovedBy(earlier.uvs[v], <<RZero, RZero>>, scale)
            ELSE MovedBy(earlier.uvs[v],
                         OffsetOf(layout, boxes,
                                  isl.face_island_ids[SetMin(FacesAt(v))]),
                         scale)

MovesInLayout(layout, boxes) ==
    MovesWithFirstFace(layout, boxes, PackScale(max_dim(layout)))

MovesFrom(boxes) ==
    MovesInLayout(ShelfPack(boxes, sorted_indices(boxes), params.island_margin),
                  boxes)

\* C30: when pack_uv_islands moves the islands, a vertex held by at least one
\* face is moved once, by target - min of the island of the first face that
\* holds it, also when later faces of other islands hold it; a vertex held
\* by no face is not moved.  (All pairs are then scaled.)
C30_VertexMovesWithFirstFace == Moved => MovesFrom(EntryBoxes)

\* A vertex held by faces of two islands with different offsets.
SharedAcrossOffsets(layout, boxes) ==
    \E v \in DOMAIN result.uvs, f, g \in Faces :
        /\ f \in FacesAt(v) /\ g \in FacesAt(v)
        /\ isl.face_island_ids[f] # isl.face_island_ids[g]
        /\ OffsetOf(layout, boxes, isl.face_island_ids[f])
               # OffsetOf(layout, boxes, isl.face_island_ids[g])

SharedInLayoutOf(boxes) ==
    SharedAcrossOffsets(
        ShelfPack(boxes, sorted_indices(boxes), params.island_margin), boxes)

\* A vertex held by faces of two islands with different offsets, and a
\* vertex held by no face that is not at the origin.
C30_Witness ==
    /\ Moved
    /\ SharedInLayoutOf(EntryBoxes)
    /\ \E v \in DOMAIN result.uvs :
          FacesAt(v) = {} /\ earlier.uvs[v] # <<RZero, RZero>>

====
